---- MODULE Spec2Model ----
(***************************************************************************)
(* A model of the two PyCalphad GUI tools:                                *)
(*   Tools/Database-Browser.py   (TDBReaderApp)                            *)
(*   Tools/Scheil-Calculator.py  (ScheilCalculatorApp)                     *)
(*                                                                         *)
(* The module holds several specifications over one set of variables; a   *)
(* specification leaves the variables of the other parts at their         *)
(* initial values:                                                         *)
(*   SpecStartup  the Qt plugin search that both scripts run on import    *)
(*   SpecScan     one pass of a reader over the lines of a database file  *)
(*   SpecBrowser  the Database Browser window and its handlers            *)
(*   SpecScheil   the Scheil Calculator window and its handlers           *)
(*   SpecComp     get_composition_from_ui and update_composition_display  *)
(***************************************************************************)
EXTENDS Integers, Sequences, FiniteSets, TLC

VARIABLES
    \* ---- module startup (both scripts) ----
    installed,        \* the environment: for each Qt binding, what is installed
    binding_idx,      \* position of find_qt_plugin_path's for loop in qt_bindings
    qt_plugin_path,   \* the module global qt_plugin_path
    env_plugin_path,  \* os.environ['QT_PLUGIN_PATH']
    startup_pc,       \* where module startup stands
    exit_status,      \* <<>> while the process runs, <<n>> once it exited with n
    \* ---- one pass over the lines of a database file ----
    scan_tool,        \* which reader is at work: "browser", "scheil", or "none"
    scan_pc,          \* "idle", "scan" (inside the for loop), "done"
    file_lines,       \* the lines of the file being read
    lines_read,       \* the lines the for loop has consumed so far, in order
    item_text,        \* item.text() of the clicked element
    selected_element, \* display_element_interactions: selected_element
    ref_phase,        \* display_element_interactions: ref_phase (<<>> is None)
    molar_mass,       \* display_element_interactions: molar_mass (<<>> is None)
    hser,             \* display_element_interactions: hser (<<>> is None)
    sser,             \* display_element_interactions: sser (<<>> is None)
    unique_interactions, \* display_element_interactions: unique_interactions
    db,               \* self.db: None, or the Database read (named by its file)
    current_file_path, \* self.current_file_path, or None
    db_label,         \* db_label.text()
    element_list_widget, \* the items of the element list, in order
    phase_list_widget, \* the items of the phase list, in order
    message_box,      \* the dialog the latest handler showed, or None
    escaped,          \* whether an exception left the latest handler
    last_event,       \* the latest handler, and what the library did in it
    details_text_edit, \* the Database Browser's details pane
    \* ---- Scheil Calculator ----
    molar_masses,     \* self.molar_masses: element name -> float
    available_elements, \* self.available_elements
    dbf,              \* self.dbf: the loaded database, or None
    base_element_combo, \* base_element_combo.currentText()
    solute_combos,    \* solute_combos[i].currentText(), row by row
    conc_entries,     \* conc_entries[i].text(), row by row
    unit_combo,       \* unit_combo.currentText()
    temp_entry,       \* temp_entry.text()
    last_sol_res,     \* self.last_sol_res: None, or the result of a simulation
    all_phases,       \* self.all_phases
    selected_phases,  \* self.selected_phases
    calc_button,      \* calc_button: its text, and whether it is enabled
    select_phases_button, \* whether select_phases_button is enabled
    save_csv_button,  \* whether save_csv_button is enabled
    save_svg_button,  \* whether save_svg_button is enabled
    current_db_label, \* current_db_label.text()
    run_stack,        \* the calls of run_simulation waiting in processEvents()
    simulate_call,    \* the arguments of the latest call of the simulation
    \* ---- a conversion of the composition, and its way back ----
    comp_pc,          \* "idle", "input", "converted", "reentered", "converted2"
    comp_first,       \* what get_composition_from_ui returned for the input
    comp_result       \* what get_composition_from_ui returned last

startup_vars == <<installed, binding_idx, qt_plugin_path, env_plugin_path,
                  startup_pc, exit_status>>

scan_vars == <<scan_tool, scan_pc, file_lines, lines_read, item_text, selected_element,
               ref_phase, molar_mass, hser, sser, unique_interactions>>

browser_vars == <<details_text_edit>>

app_vars == <<message_box, escaped, last_event>>

calc_vars == <<temp_entry, last_sol_res, all_phases, selected_phases, calc_button,
              select_phases_button, save_csv_button, save_svg_button,
              current_db_label, run_stack, simulate_call>>

tdb_vars == <<db, current_file_path, db_label, element_list_widget,
             phase_list_widget>>

scheil_vars == <<molar_masses, available_elements>>

form_vars == <<dbf, base_element_combo, solute_combos, conc_entries, unit_combo>>

comp_vars == <<comp_pc, comp_first, comp_result>>

vars == <<startup_vars, scan_vars, browser_vars, scheil_vars, form_vars,
          comp_vars, app_vars, tdb_vars, calc_vars>>

\* Python's None, for variables that hold a string or None.
None == "None"

(***************************************************************************)
(* Strings.  A Python str is modelled as the sequence of its characters,   *)
(* each a one-character string, so that strip, upper, split, startswith,   *)
(* replace and the regular expression act on what they act on in Python.   *)
(***************************************************************************)

\* string.whitespace, the characters str.strip() and str.split() drop.
WhitespaceChars == {" ", "\t", "\n", "\r"}

LowerAlpha == <<"a", "b", "c", "d", "e", "f", "g", "h", "i", "j", "k", "l", "m",
                "n", "o", "p", "q", "r", "s", "t", "u", "v", "w", "x", "y", "z">>

UpperAlpha == <<"A", "B", "C", "D", "E", "F", "G", "H", "I", "J", "K", "L", "M",
                "N", "O", "P", "Q", "R", "S", "T", "U", "V", "W", "X", "Y", "Z">>

\* The characters of the model in code point order (ASCII).
CharOrder == <<"\t", "\n", "\r", " ", "!", "#", "$", "%", "(", ")", "+", ",",
               "-", ".", "/", "0", "1", "2", "3", "4", "5", "6", "7", "8",
               "9", ":", ";">> \o UpperAlpha \o <<"_">> \o LowerAlpha

\* ord(c)
Ord(c) == CHOOSE i \in 1..Len(CharOrder) : CharOrder[i] = c

\* c.upper() for one character
UpperChar(c) ==
    IF \E i \in 1..Len(LowerAlpha) : LowerAlpha[i] = c
    THEN UpperAlpha[CHOOSE i \in 1..Len(LowerAlpha) : LowerAlpha[i] = c]
    ELSE c

\* s.upper()
Upper(s) == [i \in 1..Len(s) |-> UpperChar(s[i])]

RECURSIVE LStrip(_)
LStrip(s) ==
    IF s # <<>> /\ Head(s) \in WhitespaceChars THEN LStrip(Tail(s)) ELSE s

RECURSIVE RStrip(_)
RStrip(s) ==
    IF s # <<>> /\ s[Len(s)] \in WhitespaceChars
    THEN RStrip(SubSeq(s, 1, Len(s) - 1))
    ELSE s

\* s.strip()
Strip(s) == RStrip(LStrip(s))

\* s.startswith(prefix)
StartsWith(s, prefix) ==
    /\ Len(s) >= Len(prefix)
    /\ SubSeq(s, 1, Len(prefix)) = prefix

RECURSIVE SplitAcc(_, _, _)
SplitAcc(s, cur, acc) ==
    IF s = <<>>
    THEN IF cur = <<>> THEN acc ELSE Append(acc, cur)
    ELSE IF Head(s) \in WhitespaceChars
         THEN SplitAcc(Tail(s), <<>>, IF cur = <<>> THEN acc ELSE Append(acc, cur))
         ELSE SplitAcc(Tail(s), Append(cur, Head(s)), acc)

\* s.split(): the maximal runs of non-whitespace characters, in order.
Split(s) == SplitAcc(s, <<>>, <<>>)

\* s.replace(old, new) for one-character old and new
Replace(s, old, new) == [i \in 1..Len(s) |-> IF s[i] = old THEN new ELSE s[i]]

\* The least index j > i with s[j] = c, or 0 when there is none.
FirstAfter(s, i, c) ==
    IF \E j \in (i + 1)..Len(s) : s[j] = c
    THEN CHOOSE j \in (i + 1)..Len(s) :
            /\ s[j] = c
            /\ \A k \in (i + 1)..(j - 1) : s[k] # c
    ELSE 0

\* Whether r'\(([^,]+),([^;]+);' matches with its '(' at index i.  [^,]+ runs
\* to the first ',' after the '(' and must not be empty; [^;]+ runs to the
\* first ';' after that ',' and must not be empty.
MatchesAt(s, i) ==
    /\ s[i] = "("
    /\ LET j == FirstAfter(s, i, ",") IN
         /\ j > i + 1
         /\ FirstAfter(s, j, ";") > j + 1

\* param_regex.search(s): <<>> for no match (None), else <<group(1), group(2)>>
\* of the leftmost match.
ParamRegexSearch(s) ==
    IF \E i \in 1..Len(s) : MatchesAt(s, i)
    THEN LET i == CHOOSE i \in 1..Len(s) :
                     /\ MatchesAt(s, i)
                     /\ \A h \in 1..(i - 1) : ~MatchesAt(s, h)
             j == FirstAfter(s, i, ",")
             k == FirstAfter(s, j, ";")
         IN  <<SubSeq(s, i + 1, j - 1), SubSeq(s, j + 1, k - 1)>>
    ELSE <<>>

\* a < b for two strings: Python's comparison, by code point, a proper
\* prefix being the smaller.
RECURSIVE StrLess(_, _)
StrLess(a, b) ==
    IF b = <<>> THEN FALSE
    ELSE IF a = <<>> THEN TRUE
    ELSE IF Head(a) = Head(b) THEN StrLess(Tail(a), Tail(b))
    ELSE Ord(Head(a)) < Ord(Head(b))

\* sorted(S) for a set S of strings.
RECURSIVE SortedStrs(_)
SortedStrs(S) ==
    IF S = {} THEN <<>>
    ELSE LET m == CHOOSE x \in S : \A y \in S \ {x} : StrLess(x, y)
         IN  <<m>> \o SortedStrs(S \ {m})

\* The elements of a sequence, as a set.
Range(f) == {f[i] : i \in DOMAIN f}

(***************************************************************************)
(* Floating point.  A Python float is modelled as a decimal floating point *)
(* number with FloatDigits significant digits, [m |-> mantissa, e |->      *)
(* exponent] standing for m * 10^e, every operation rounding its exact     *)
(* result to the nearest such number (ties to even), as IEEE 754 does with *)
(* 53 binary digits.                                                       *)
(***************************************************************************)

\* The significant decimal digits a float of the model keeps.
FloatDigits == 3

RECURSIVE Pow10(_)
Pow10(n) == IF n <= 0 THEN 1 ELSE 10 * Pow10(n - 1)

Abs(x) == IF x < 0 THEN -x ELSE x

DFZero == [m |-> 0, e |-> 0]

\* F(v) and G(v, w), with v and w evaluated once however often F and G use
\* them.
With(v, F(_)) == CHOOSE r \in {F(x) : x \in {v}} : TRUE

With2(v, w, G(_, _)) == CHOOSE r \in {G(x, y) : x \in {v}, y \in {w}} : TRUE

\* n / d * 10^e with n >= 0, d > 0, scaled until the quotient has FloatDigits
\* digits before the point.
RECURSIVE ScaleToDigits(_, _, _)
ScaleToDigits(n, d, e) ==
    IF n < d * Pow10(FloatDigits - 1) THEN ScaleToDigits(n * 10, d, e - 1)
    ELSE IF n >= d * Pow10(FloatDigits) THEN ScaleToDigits(n, d * 10, e + 1)
    ELSE <<n, d, e>>

\* The quotient sc[1] / sc[2], of FloatDigits digits, rounded half to even,
\* with the sign of num.
RoundScaled(sc, num) ==
    LET q == sc[1] \div sc[2]
        r == sc[1] % sc[2]
        up == (2 * r > sc[2]) \/ (2 * r = sc[2] /\ q % 2 = 1)
        q1 == IF up THEN q + 1 ELSE q
        m == IF q1 = Pow10(FloatDigits) THEN Pow10(FloatDigits - 1) ELSE q1
        e1 == IF q1 = Pow10(FloatDigits) THEN sc[3] + 1 ELSE sc[3]
    IN  [m |-> IF num < 0 THEN -m ELSE m, e |-> e1]

\* The float nearest to the exact value num / den * 10^e (den > 0).
DFRound(num, den, e) ==
    With2(num, <<den, e>>,
          LAMBDA n, de :
             IF n = 0 THEN DFZero
             ELSE With2(ScaleToDigits(Abs(n), de[1], de[2]), n, RoundScaled))

\* float(n) for an integer n
DFInt(n) == DFRound(n, 1, 0)

DFNeg(a) == With(a, LAMBDA x : [m |-> -x.m, e |-> x.e])

\* a + b
DFAdd(a, b) ==
    With2(a, b,
          LAMBDA x, y :
             IF x.m = 0 THEN y
             ELSE IF y.m = 0 THEN x
             ELSE IF x.e - y.e > FloatDigits + 1 THEN x
             ELSE IF y.e - x.e > FloatDigits + 1 THEN y
             ELSE LET e == IF x.e < y.e THEN x.e ELSE y.e
                  IN  DFRound(x.m * Pow10(x.e - e) + y.m * Pow10(y.e - e), 1, e))

\* a - b
DFSub(a, b) == DFAdd(a, DFNeg(b))

\* a * b
DFMul(a, b) == With2(a, b, LAMBDA x, y : DFRound(x.m * y.m, 1, x.e + y.e))

\* a / b for b # 0
DFDiv(a, b) ==
    With2(a, b,
          LAMBDA x, y :
             IF y.m < 0 THEN DFRound(-x.m, -y.m, x.e - y.e)
             ELSE DFRound(x.m, y.m, x.e - y.e))

\* a < b
DFLess(a, b) ==
    With2(a, b,
          LAMBDA x, y :
             IF x.m <= 0 /\ y.m > 0 THEN TRUE
             ELSE IF x.m >= 0 /\ y.m <= 0 THEN FALSE
             ELSE IF x.e = y.e THEN x.m < y.m
             ELSE IF x.m > 0 THEN x.e < y.e
             ELSE x.e > y.e)

\* sum(xs) for a sequence of floats: 0 + xs[1] + xs[2] + ...
RECURSIVE DFSumFrom(_, _)
DFSumFrom(acc, xs) ==
    IF xs = <<>> THEN acc ELSE DFSumFrom(DFAdd(acc, Head(xs)), Tail(xs))

DFSum(xs) == With(xs, LAMBDA v : DFSumFrom(DFZero, v))

Digits == <<"0", "1", "2", "3", "4", "5", "6", "7", "8", "9">>

IsDigit(c) == \E i \in 1..Len(Digits) : Digits[i] = c

DigitValue(c) == (CHOOSE i \in 1..Len(Digits) : Digits[i] = c) - 1

\* Whether float(s) accepts s, for the literals of this model: an optional
\* sign, digits, at most one '.', at least one digit.  (float() also takes
\* exponents, inf and nan; no input of the model is one.)
IsFloatLiteral(s) ==
    LET body == IF s # <<>> /\ Head(s) \in {"-", "+"} THEN Tail(s) ELSE s IN
    /\ \E i \in 1..Len(body) : IsDigit(body[i])
    /\ \A i \in 1..Len(body) : IsDigit(body[i]) \/ body[i] = "."
    /\ Cardinality({i \in 1..Len(body) : body[i] = "."}) <= 1

RECURSIVE DigitsValue(_, _)
DigitsValue(s, acc) ==
    IF s = <<>> THEN acc
    ELSE IF Head(s) = "." THEN DigitsValue(Tail(s), acc)
    ELSE DigitsValue(Tail(s), 10 * acc + DigitValue(Head(s)))

\* float(s) for a literal s
FloatOf(s) ==
    LET neg == s # <<>> /\ Head(s) = "-"
        body == IF s # <<>> /\ Head(s) \in {"-", "+"} THEN Tail(s) ELSE s
        dot == FirstAfter(body, 0, ".")
        frac == IF dot = 0 THEN 0 ELSE Len(body) - dot
        n == DigitsValue(body, 0)
    IN  DFRound(IF neg THEN -n ELSE n, Pow10(frac), 0)

(***************************************************************************)
(* The reference-data extractor: the for loop over the lines of the file   *)
(* in TDBReaderApp.display_element_interactions.                           *)
(***************************************************************************)

\* The longest file the model reads, in lines.
MaxLines == 2

\* a binary interaction
P_LAB ==
    <<"P", "A", "R", "A", "M", "E", "T", "E", "R", " ", "G", "(", "L", ",",
          "A", ",", "B", ";", "0", ")", "\n">>

\* the same phase and constituents, other order and separator
P_LBA ==
    <<"P", "A", "R", "A", "M", "E", "T", "E", "R", " ", "G", "(", "L", ",",
          "B", ":", "A", ";", "1", ")", "\n">>

\* the same again in lower case, with blanks
P_lower ==
    <<" ", "p", "a", "r", "a", "m", "e", "t", "e", "r", " ", "l", "(", "l",
          ",", "b", " ", ",", " ", "a", ";", "0", ")", "\n">>

\* a ternary interaction in another phase
P_FACB ==
    <<"P", "A", "R", "A", "M", "E", "T", "E", "R", " ", "G", "(", "F", ",",
          "A", ",", "C", ":", "B", ";", "0", ")", "\n">>

\* one constituent only
P_LA ==
    <<"P", "A", "R", "A", "M", "E", "T", "E", "R", " ", "G", "(", "L", ",",
          "A", ";", "0", ")", "\n">>

\* one constituent named twice
P_LAA ==
    <<"P", "A", "R", "A", "M", "E", "T", "E", "R", " ", "G", "(", "L", ",",
          "A", ",", "A", ";", "0", ")", "\n">>

\* an interaction without A
P_LBC ==
    <<"P", "A", "R", "A", "M", "E", "T", "E", "R", " ", "G", "(", "L", ",",
          "B", ",", "C", ";", "0", ")", "\n">>

\* no ',' after the phase: the pattern does not match
P_nocomma ==
    <<"P", "A", "R", "A", "M", "E", "T", "E", "R", " ", "G", "(", "L", " ",
          "A", " ", "B", ")", "\n">>

\* nothing between '(' and ',': the pattern does not match
P_nophase ==
    <<"P", "A", "R", "A", "M", "E", "T", "E", "R", " ", "G", "(", ",", "A",
          ",", "B", ";", "0", ")", "\n">>

\* no ';': the pattern does not match
P_nosemi ==
    <<"P", "A", "R", "A", "M", "E", "T", "E", "R", " ", "G", "(", "L", ",",
          "A", ",", "B", "\n">>

\* a well-formed declaration of A
E_A1 ==
    <<"E", "L", "E", "M", "E", "N", "T", " ", "A", " ", "F", " ", "2",
          "7", " ", "2", " ", "3", "\n">>

\* another well-formed declaration of A
E_A2 ==
    <<"E", "L", "E", "M", "E", "N", "T", " ", "A", " ", "G", " ", "4", " ",
          "5", " ", "6", "\n">>

\* a declaration of A written in lower case, with trailing tokens
E_lower ==
    <<"E", "L", "E", "M", "E", "N", "T", " ", "a", " ", "f", " ", "7",
          ".", "5", " ", "8", " ", "9", " ", "!", " ", "x", "\n">>

\* a well-formed declaration of B
E_B ==
    <<"E", "L", "E", "M", "E", "N", "T", " ", "B", " ", "F", " ", "6",
          "3", ".", "5", " ", "2", " ", "2", "\n">>

\* a well-formed declaration of C
E_C ==
    <<"E", "L", "E", "M", "E", "N", "T", " ", "C", " ", "G", " ", "1",
          "2", " ", "1", " ", "1", "\n">>

\* five tokens
E_5tok ==
    <<"E", "L", "E", "M", "E", "N", "T", " ", "A", " ", "F", " ", "1", " ",
          "2", "\n">>

\* three tokens
E_3tok ==
    <<"E", "L", "E", "M", "E", "N", "T", " ", "A", " ", "F", "\n">>

\* a mass that is no number
E_badmass ==
    <<"E", "L", "E", "M", "E", "N", "T", " ", "A", " ", "F", " ", "X", " ",
          "2", " ", "3", "\n">>

\* a tab after the keyword: does not start with 'ELEMENT '
E_tab ==
    <<"E", "L", "E", "M", "E", "N", "T", "\t", "A", " ", "F", " ", "1", " ",
          "2", " ", "3", "\n">>

\* the vacancy pseudo-element
E_VA ==
    <<"E", "L", "E", "M", "E", "N", "T", " ", "V", "A", " ", "V", " ", "0",
          " ", "0", " ", "0", "\n">>

\* a blank line
L_blank ==
    <<" ", " ", "\n">>

\* a comment
L_comment ==
    <<"$", " ", "E", "L", "E", "M", "E", "N", "T", " ", "A", " ", "F", " ",
          "1", " ", "2", " ", "3", "\n">>

\* another keyword
L_phase ==
    <<"P", "H", "A", "S", "E", " ", "L", " ", "%", " ", "1", " ", "1", " ",
          "!", "\n">>

\* The lines a database file is made of in this model.
FileLines ==
    {P_LAB, P_LBA, P_lower, P_FACB, P_LA,
     P_LAA, P_LBC, P_nocomma, P_nophase, P_nosemi,
     E_A1, E_A2, E_lower, E_B, E_C, E_5tok,
     E_3tok, E_badmass, E_tab, E_VA, L_blank,
     L_comment, L_phase}

\* The elements of the list widget the user can click in this model.
ScanItems == {<<"A">>, <<"B">>}

KwElementSp == <<"E", "L", "E", "M", "E", "N", "T", " ">>
KwParameter == <<"P", "A", "R", "A", "M", "E", "T", "E", "R">>
NotFound == <<"N", "o", "t", " ", "f", "o", "u", "n", "d">>

\* The loop's local variables, as one record.
ScanLocals ==
    [ref_phase |-> ref_phase, molar_mass |-> molar_mass, hser |-> hser,
     sser |-> sser, unique_interactions |-> unique_interactions]

\* core_elements: the distinct tokens of the constituent list once ',' and
\* ':' are blanks.
CoreElements(constituents_str) ==
    Range(Split(Replace(Replace(constituents_str, ",", " "), ":", " ")))

\* A variant that keeps the constituents in the order the line names them
\* (no sorted()).
InteractionTuple_Unsorted(phase_name, constituents_str) ==
    <<phase_name, Split(Replace(Replace(constituents_str, ",", " "), ":", " "))>>

\* interaction_tuple = (phase_name, tuple(sorted(list(core_elements))))
InteractionTuple(phase_name, constituents_str) ==
    <<phase_name, SortedStrs(CoreElements(constituents_str))>>

\* A variant of the filter that asks only for the selected element.
AddsInteraction_NoOther(sel, core_elements) ==
    sel \in core_elements

\* if selected_element in core_elements and len(core_elements) > 1
AddsInteraction(sel, core_elements) ==
    /\ sel \in core_elements
    /\ Cardinality(core_elements) > 1

\* A variant that takes the reference data of any element's declaration.
TakesElementLine_AnyElement(parts, sel) ==
    Len(parts) >= 6

\* if len(parts) >= 6 and parts[1] == selected_element
TakesElementLine(parts, sel) ==
    /\ Len(parts) >= 6
    /\ parts[2] = sel

\* A variant that does not upper-case the line.
CleanLine_NoUpper(line) == Strip(line)

\* clean_line = line.strip().upper()
CleanLine(line) == Upper(Strip(line))

\* A variant in which a PARAMETER line the pattern does not match ends the
\* handling of the file's reference data: the locals are reset.
NoMatchLocals_Reset(loc) ==
    [loc EXCEPT !.ref_phase = <<>>, !.molar_mass = <<>>, !.hser = <<>>,
                !.sser = <<>>]

\* if match: ... (no else): the locals stay as they are.
NoMatchLocals(loc) == loc

\* The body of the for loop for one line: the locals after it.
BrowserLine(loc, line, sel) ==
    LET clean_line == CleanLine(line) IN
    IF clean_line = <<>> \/ StartsWith(clean_line, <<"$">>)
    THEN loc
    ELSE
      LET parts == Split(clean_line)
          loc1 == IF StartsWith(clean_line, KwElementSp)
                     /\ TakesElementLine(parts, sel)
                  THEN [loc EXCEPT !.ref_phase = parts[3],
                                   !.molar_mass = parts[4],
                                   !.hser = parts[5],
                                   !.sser = parts[6]]
                  ELSE loc
          match == ParamRegexSearch(clean_line)
      IN  IF StartsWith(clean_line, KwParameter)
          THEN IF match # <<>>
               THEN LET phase_name == Strip(match[1])
                        constituents_str == Strip(match[2])
                    IN  IF AddsInteraction(sel, CoreElements(constituents_str))
                        THEN [loc1 EXCEPT !.unique_interactions =
                                 @ \cup {InteractionTuple(phase_name,
                                                          constituents_str)}]
                        ELSE loc1
               ELSE NoMatchLocals(loc1)
          ELSE loc1

\* a < b for two interaction tuples (phase, elements): Python's tuple
\* comparison.
RECURSIVE TupleLess(_, _)
TupleLess(a, b) ==
    IF b = <<>> THEN FALSE
    ELSE IF a = <<>> THEN TRUE
    ELSE IF Head(a) = Head(b) THEN TupleLess(Tail(a), Tail(b))
    ELSE StrLess(Head(a), Head(b))

InteractionLess(r1, r2) ==
    IF r1[1] = r2[1] THEN TupleLess(r1[2], r2[2]) ELSE StrLess(r1[1], r2[1])

\* sorted(list(unique_interactions))
RECURSIVE SortedInteractions(_)
SortedInteractions(S) ==
    IF S = {} THEN <<>>
    ELSE LET m == CHOOSE x \in S : \A y \in S \ {x} : InteractionLess(x, y)
         IN  <<m>> \o SortedInteractions(S \ {m})

\* x or 'Not found'
OrNotFound(x) == IF x = <<>> THEN NotFound ELSE x

\* The text the handler puts in the details pane, field by field.
ElementDetails(item, loc) ==
    [kind |-> "element",
     title |-> item,
     ref_phase |-> OrNotFound(loc.ref_phase),
     molar_mass |-> OrNotFound(loc.molar_mass),
     hser |-> OrNotFound(loc.hser),
     sser |-> OrNotFound(loc.sser),
     interactions |-> SortedInteractions(loc.unique_interactions)]

\* details_text_edit.clear()
EmptyDetails == [kind |-> "empty"]

ScanIdle ==
    /\ scan_tool = "none"
    /\ scan_pc = "idle"
    /\ file_lines = <<>>
    /\ lines_read = <<>>
    /\ item_text = <<>>
    /\ selected_element = <<>>
    /\ ref_phase = <<>>
    /\ molar_mass = <<>>
    /\ hser = <<>>
    /\ sser = <<>>
    /\ unique_interactions = {}

BrowserIdle ==
    /\ details_text_edit = EmptyDetails

\* if not clean_line or clean_line.startswith('$'): continue
IsSkippedLine(clean_line) ==
    clean_line = <<>> \/ StartsWith(clean_line, <<"$">>)

\* A variant of that statement with break for continue.
AfterSkippedLine_Break == "done"

\* continue: the loop goes on with the next line.
AfterSkippedLine == "scan"

\* display_element_interactions up to the for loop.
BrowserScanBegin(item) ==
    /\ scan_tool = "browser"
    /\ scan_pc = "idle"
    /\ details_text_edit' = EmptyDetails
    /\ item_text' = item
    /\ selected_element' = Upper(item)
    /\ ref_phase' = <<>>
    /\ molar_mass' = <<>>
    /\ hser' = <<>>
    /\ sser' = <<>>
    /\ unique_interactions' = {}
    /\ lines_read' = <<>>
    /\ scan_pc' = "scan"
    /\ UNCHANGED <<scan_tool, file_lines, startup_vars, scheil_vars, form_vars,
                   comp_vars, app_vars, tdb_vars, calc_vars>>

\* One iteration of the for loop.
BrowserScanLine ==
    /\ scan_tool = "browser"
    /\ scan_pc = "scan"
    /\ Len(lines_read) < Len(file_lines)
    /\ LET line == file_lines[Len(lines_read) + 1]
           loc == BrowserLine(ScanLocals, line, selected_element)
       IN  /\ ref_phase' = loc.ref_phase
           /\ molar_mass' = loc.molar_mass
           /\ hser' = loc.hser
           /\ sser' = loc.sser
           /\ unique_interactions' = loc.unique_interactions
           /\ lines_read' = Append(lines_read, line)
           /\ scan_pc' = IF IsSkippedLine(CleanLine(line))
                         THEN AfterSkippedLine
                         ELSE "scan"
    /\ UNCHANGED <<scan_tool, file_lines, item_text, selected_element,
                   details_text_edit, startup_vars, scheil_vars, form_vars,
                   comp_vars, app_vars, tdb_vars, calc_vars>>

\* The for loop is over: the file is exhausted, or a break left the loop.
LoopEnded ==
    \/ scan_pc = "scan" /\ Len(lines_read) = Len(file_lines)
    \/ scan_pc = "done"

\* The loop has ended: the handler builds the text and shows it.
BrowserScanEnd ==
    /\ scan_tool = "browser"
    /\ LoopEnded
    /\ details_text_edit' = ElementDetails(item_text, ScanLocals)
    /\ scan_pc' = "shown"
    /\ UNCHANGED <<scan_tool, file_lines, lines_read, item_text,
                   selected_element, ref_phase, molar_mass, hser, sser,
                   unique_interactions, startup_vars, scheil_vars, form_vars,
                   comp_vars, app_vars, tdb_vars, calc_vars>>

(***************************************************************************)
(* The Database Browser's window: TDBReaderApp.                            *)
(***************************************************************************)

\* ref_phase, molar_mass, hser, sser = None, None, None, None
\* unique_interactions = set()
NoLocals ==
    [ref_phase |-> <<>>, molar_mass |-> <<>>, hser |-> <<>>, sser |-> <<>>,
     unique_interactions |-> {}]

\* The locals after the for loop has run over lines.
RECURSIVE BrowserScanOf(_, _, _)
BrowserScanOf(loc, lines, sel) ==
    IF lines = <<>> THEN loc
    ELSE BrowserScanOf(BrowserLine(loc, Head(lines), sel), Tail(lines), sel)

\* The files a file dialog can return.
Path_ab == "/data/ab.tdb"
Path_bc == "/data/bc.tdb"
Path_abc == "/data/abc.tdb"
Path_lower == "/data/lower.tdb"
Path_c == "/data/c.tdb"
Path_broken == "/data/broken.tdb"
Path_notes == "/data/notes.txt"
Path_gone == "/data/gone.tdb"

TdbPaths == {Path_ab, Path_bc, Path_abc, Path_lower, Path_c, Path_broken,
             Path_notes}

\* os.path.basename
Basename(path) ==
    CASE path = Path_ab -> "ab.tdb"
      [] path = Path_bc -> "bc.tdb"
      [] path = Path_abc -> "abc.tdb"
      [] path = Path_lower -> "lower.tdb"
      [] path = Path_c -> "c.tdb"
      [] path = Path_broken -> "broken.tdb"
      [] path = Path_notes -> "notes.txt"
      [] path = Path_gone -> "gone.tdb"

\* The lines open() reads from each file.
LinesOf(path) ==
    CASE path = Path_ab -> <<E_A1, E_B, E_VA, P_LAB>>
      [] path = Path_bc -> <<E_B, E_C, P_LBC>>
      [] path = Path_abc -> <<L_comment, E_A1, E_B, E_C, E_VA, L_phase, P_LAB,
                              P_LBA, P_LBC, P_FACB>>
      [] path = Path_lower -> <<E_lower, E_B, P_lower>>
      [] path = Path_c -> <<E_C>>
      [] path = Path_broken -> <<L_phase, E_3tok>>
      [] path = Path_notes -> <<L_blank>>

\* Whether pycalphad's Database(path) raises.
DatabaseRaises(path) == path \in {Path_broken, Path_notes}

\* os.path.exists(path)
PathExists(path) == path # Path_gone

El_A == <<"A">>
El_B == <<"B">>
El_C == <<"C">>
El_VA == <<"V", "A">>
El_Null == <<"/", "-">>
Ph_Liquid == <<"L", "I", "Q", "U", "I", "D">>
Ph_Fcc == <<"F", "C", "C">>
Ph_Bcc == <<"B", "C", "C">>
Ph_Hcp == <<"H", "C", "P">>

\* Database(path).elements
DbElements(d) ==
    CASE d = Path_ab -> {El_A, El_B, El_VA, El_Null}
      [] d = Path_bc -> {El_B, El_C, El_Null}
      [] d = Path_abc -> {El_A, El_B, El_C, El_VA, El_Null}
      [] d = Path_lower -> {El_A, El_B}
      [] d = Path_c -> {El_C}

\* Database(path).phases: name -> the phase's constituents, sublattice by
\* sublattice, and its site ratios.
DbPhases(d) ==
    CASE d = Path_ab ->
            (Ph_Liquid :> [constituents |-> <<{El_A, El_B}>>,
                           sublattices |-> <<"1.0">>]) @@
            (Ph_Fcc :> [constituents |-> <<{El_A, El_B}, {El_VA}>>,
                        sublattices |-> <<"1.0", "3.0">>])
      [] d = Path_bc ->
            (Ph_Liquid :> [constituents |-> <<{El_B, El_C}>>,
                           sublattices |-> <<"1.0">>]) @@
            (Ph_Bcc :> [constituents |-> <<{El_B, El_C}>>,
                        sublattices |-> <<"1.0">>])
      [] d = Path_abc ->
            (Ph_Liquid :> [constituents |-> <<{El_A, El_B, El_C}>>,
                           sublattices |-> <<"1.0">>]) @@
            (Ph_Fcc :> [constituents |-> <<{El_A, El_B}, {El_C, El_VA}>>,
                        sublattices |-> <<"1.0", "1.0">>]) @@
            (Ph_Bcc :> [constituents |-> <<{El_B, El_C}, {El_VA}>>,
                        sublattices |-> <<"1.0", "3.0">>]) @@
            (Ph_Hcp :> [constituents |-> <<{El_A, El_C}, {El_VA}>>,
                        sublattices |-> <<"1.0", "0.5">>])
      [] d = Path_lower ->
            (Ph_Liquid :> [constituents |-> <<{El_A, El_B}>>,
                           sublattices |-> <<"1.0">>])
      [] d = Path_c ->
            (Ph_Liquid :> [constituents |-> <<{El_C}>>,
                           sublattices |-> <<"1.0">>])

Label(text, arg) == [text |-> text, arg |-> arg]

NoDialog == [kind |-> "none", text |-> ""]
Dialog(kind, text) == [kind |-> kind, text |-> text]

\* TDBReaderApp.__init__
TdbIdle ==
    /\ db = None
    /\ current_file_path = None
    /\ db_label = Label("No database loaded.", "")
    /\ element_list_widget = <<>>
    /\ phase_list_widget = <<>>

AppIdle ==
    /\ message_box = NoDialog
    /\ escaped = FALSE
    /\ last_event = "none"

\* What a variant of read_tdb_file's except branch leaves in db and
\* current_file_path: it forgets the path.
ReadFailure_KeepsPath(path_before) ==
    [db |-> None, current_file_path |-> path_before]

\* A variant of read_tdb_file's except branch that does not reset db: a
\* database loaded before stays in place.
ReadFailure_KeepsDb(path_before) ==
    [db |-> db, current_file_path |-> None]

\* read_tdb_file's except branch: self.db = None; self.current_file_path = None
ReadFailure(path_before) ==
    [db |-> None, current_file_path |-> None]

\* sorted([str(el) for el in self.db.elements if str(el).upper() != '/-'])
ListedElements(d) == SortedStrs({el \in DbElements(d) : Upper(el) # El_Null})

\* sorted(list(self.db.phases.keys()))
ListedPhases(d) == SortedStrs(DOMAIN DbPhases(d))

\* open_file_dialog, the dialog cancelled: file_path is ''.
OpenFileDialogCancelled ==
    /\ last_event' = "open_file_dialog: cancelled"
    /\ message_box' = NoDialog
    /\ escaped' = FALSE
    /\ UNCHANGED <<tdb_vars, details_text_edit>>
    /\ UNCHANGED <<startup_vars, scan_vars, scheil_vars, form_vars, comp_vars,
                   calc_vars>>

\* open_file_dialog with a file chosen: current_file_path is set,
\* read_tdb_file runs, and then the label is set to the file's name.
OpenFileDialog(file_path) ==
    /\ details_text_edit' = EmptyDetails
    /\ IF DatabaseRaises(file_path)
       THEN /\ db' = ReadFailure(file_path).db
            /\ current_file_path' = ReadFailure(file_path).current_file_path
            /\ element_list_widget' = <<>>
            /\ phase_list_widget' = <<>>
            /\ message_box' = Dialog("critical", "Failed to read TDB file")
            /\ last_event' = "open_file_dialog: Database raised"
       ELSE /\ db' = file_path
            /\ current_file_path' = file_path
            /\ element_list_widget' = ListedElements(file_path)
            /\ phase_list_widget' = ListedPhases(file_path)
            /\ message_box' = NoDialog
            /\ last_event' = "open_file_dialog: loaded"
    /\ db_label' = Label("Current DB: ", Basename(file_path))
    /\ escaped' = FALSE
    /\ UNCHANGED <<startup_vars, scan_vars, scheil_vars, form_vars, comp_vars,
                   calc_vars>>

\* sorted([str(s) for s in sub])
RECURSIVE SortedSublattices(_, _)
SortedSublattices(constituents, site_ratios) ==
    IF constituents = <<>> THEN <<>>
    ELSE << <<SortedStrs(Head(constituents)), Head(site_ratios)>> >>
         \o SortedSublattices(Tail(constituents), Tail(site_ratios))

\* The text display_phase_details sets.
PhaseDetails(phase_name, phase_obj) ==
    [kind |-> "phase",
     title |-> phase_name,
     constituents |->
        SortedStrs({c \in UNION Range(phase_obj.constituents) : Upper(c) # El_Null}),
     sublattice_model |->
        SortedSublattices(phase_obj.constituents, phase_obj.sublattices)]

\* display_phase_details: a click on an item of the phase list.
DisplayPhaseDetails(item) ==
    /\ item \in Range(phase_list_widget)
    /\ IF db = None
       THEN UNCHANGED details_text_edit
       ELSE IF item \notin DOMAIN DbPhases(db)
       THEN details_text_edit' = EmptyDetails
       ELSE details_text_edit' = PhaseDetails(item, DbPhases(db)[item])
    /\ last_event' = "display_phase_details"
    /\ message_box' = NoDialog
    /\ escaped' = FALSE
    /\ UNCHANGED tdb_vars
    /\ UNCHANGED <<startup_vars, scan_vars, scheil_vars, form_vars, comp_vars,
                   calc_vars>>

\* The text display_element_interactions sets when reading the file raised.
ParseErrorDetails == [kind |-> "error"]

\* display_element_interactions: a click on an item of the element list.
\* readable is whether open() and the reading of the file succeed.
DisplayElementInteractions(item, readable) ==
    /\ item \in Range(element_list_widget)
    /\ IF current_file_path = None
       THEN UNCHANGED details_text_edit
       ELSE IF ~readable
       THEN details_text_edit' = ParseErrorDetails
       ELSE details_text_edit' =
               ElementDetails(item, BrowserScanOf(NoLocals,
                                                  LinesOf(current_file_path),
                                                  Upper(item)))
    /\ last_event' = IF readable THEN "display_element_interactions"
                     ELSE "display_element_interactions: open raised"
    /\ message_box' = NoDialog
    /\ escaped' = FALSE
    /\ UNCHANGED tdb_vars
    /\ UNCHANGED <<startup_vars, scan_vars, scheil_vars, form_vars, comp_vars,
                   calc_vars>>

\* show_about_dialog
ShowAboutDialog ==
    /\ last_event' = "show_about_dialog"
    /\ message_box' = Dialog("about", "About TDB Viewer")
    /\ escaped' = FALSE
    /\ UNCHANGED <<tdb_vars, details_text_edit>>
    /\ UNCHANGED <<startup_vars, scan_vars, scheil_vars, form_vars, comp_vars,
                   calc_vars>>

(***************************************************************************)
(* The molar-mass reader: the for loop over the lines of the file in       *)
(* ScheilCalculatorApp.load_database_from_path.                            *)
(***************************************************************************)

\* d[key] = value for a dict d, modelled as a function on its keys.
DictSet(d, key, value) ==
    [k \in (DOMAIN d) \cup {key} |-> IF k = key THEN value ELSE d[k]]

EmptyDict == [k \in {} |-> DFZero]

\* A variant of the guard that takes a line of three tokens for a line with
\* a mass, reading the reference phase as the mass.
MassToken_Third(parts) ==
    IF Len(parts) >= 3 THEN parts[3] ELSE <<>>

\* if len(parts) >= 4: ... parts[3]; <<>> when the line has no such token.
MassToken(parts) ==
    IF Len(parts) >= 4 THEN parts[4] ELSE <<>>

\* The body of the for loop for one line: molar_masses after it.
\*   self.molar_masses[parts[1]] = float(parts[3])
\*   except (ValueError, IndexError): continue
MolarMassLine(mm, line) ==
    LET clean_line == Upper(Strip(line)) IN
    IF StartsWith(clean_line, KwElementSp)
    THEN LET parts == Split(clean_line)
             tok == MassToken(parts)
         IN  IF tok # <<>> /\ IsFloatLiteral(tok)
             THEN DictSet(mm, parts[2], FloatOf(tok))
             ELSE mm
    ELSE mm

\* molar_masses after the for loop has run over lines.
RECURSIVE MolarMassesOf(_, _)
MolarMassesOf(mm, lines) ==
    IF lines = <<>> THEN mm
    ELSE MolarMassesOf(MolarMassLine(mm, Head(lines)), Tail(lines))

\* sorted([el for el in self.molar_masses.keys() if el not in ['VA', '/-']])
AvailableElements(mm) ==
    SortedStrs((DOMAIN mm) \ {<<"V", "A">>, <<"/", "-">>})

ScheilIdle ==
    /\ molar_masses = EmptyDict
    /\ available_elements = <<>>

\* self.molar_masses = {} and the opening of the file.
ScheilScanBegin ==
    /\ scan_tool = "scheil"
    /\ scan_pc = "idle"
    /\ molar_masses' = EmptyDict
    /\ lines_read' = <<>>
    /\ scan_pc' = "scan"
    /\ UNCHANGED <<scan_tool, file_lines, item_text, selected_element,
                   ref_phase, molar_mass, hser, sser, unique_interactions,
                   available_elements, startup_vars, browser_vars,
                   form_vars, comp_vars, app_vars,
                   tdb_vars, calc_vars>>

\* One iteration of the for loop.
ScheilScanLine ==
    /\ scan_tool = "scheil"
    /\ scan_pc = "scan"
    /\ Len(lines_read) < Len(file_lines)
    /\ LET line == file_lines[Len(lines_read) + 1] IN
         /\ molar_masses' = MolarMassLine(molar_masses, line)
         /\ lines_read' = Append(lines_read, line)
    /\ UNCHANGED <<scan_tool, scan_pc, file_lines, item_text, selected_element,
                   ref_phase, molar_mass, hser, sser, unique_interactions,
                   available_elements, startup_vars, browser_vars,
                   form_vars, comp_vars, app_vars,
                   tdb_vars, calc_vars>>

\* The loop has ended: available_elements is computed from the keys.
ScheilScanEnd ==
    /\ scan_tool = "scheil"
    /\ scan_pc = "scan"
    /\ Len(lines_read) = Len(file_lines)
    /\ available_elements' = AvailableElements(molar_masses)
    /\ scan_pc' = "shown"
    /\ UNCHANGED <<scan_tool, file_lines, lines_read, item_text,
                   selected_element, ref_phase, molar_mass, hser, sser,
                   unique_interactions, molar_masses, startup_vars,
                   browser_vars, form_vars, comp_vars, app_vars,
                   tdb_vars, calc_vars>>

(***************************************************************************)
(* The composition form: ScheilCalculatorApp.get_composition_from_ui.      *)
(***************************************************************************)

\* The solute rows of the form in this model (create_input_form makes 6).
NumSoluteRows == 2

MassPercent == "Mass %"
AtomPercent == "Atom %"

\* A dict whose order of insertion matters (sum() adds in that order) is a
\* sequence of <<key, value>> pairs.
OrderedKeys(d) == With(d, LAMBDA v : {v[i][1] : i \in 1..Len(v)})

OrderedGet(d, key) ==
    With2(d, key, LAMBDA v, k : v[CHOOSE i \in 1..Len(v) : v[i][1] = k][2])

\* d[key] = value: in place for a key the dict has, at the end for a new one.
OrderedPut(d, key, value) ==
    With2(d, <<key, value>>,
          LAMBDA v, kv :
             IF \E i \in 1..Len(v) : v[i][1] = kv[1]
             THEN [i \in 1..Len(v) |-> IF v[i][1] = kv[1] THEN kv ELSE v[i]]
             ELSE Append(v, kv))

\* list(d.values())
OrderedValues(d) == With(d, LAMBDA v : [i \in 1..Len(v) |-> v[i][2]])

\* {k: v for k, v in d.items() if k != key}
OrderedWithout(d, key) ==
    With2(d, key, LAMBDA v, k : SelectSeq(v, LAMBDA kv : kv[1] # k))

\* What get_composition_from_ui returns in one position: a message,
ReturnedText(text) == [kind |-> "str", text |-> text]
\* or a dict of percentages.
ReturnedDict(d) == [kind |-> "dict", items |-> d]
\* The call may also end in an exception no except clause of it catches.
Raised(what) == [kind |-> "raise", text |-> what]

\* The for loop that fills comps_in from the rows, from row i on:
\*   if el and conc_str: comps_in[el] = float(conc_str)
\* with ok FALSE when float() raises ValueError.
RECURSIVE CompsInFrom(_, _, _, _)
CompsInFrom(comps_in, combos, entries, i) ==
    IF i > Len(combos) THEN [ok |-> TRUE, comps_in |-> comps_in]
    ELSE With2(combos[i], Strip(entries[i]),
               LAMBDA el, conc_str :
                  IF el # <<>> /\ conc_str # <<>>
                  THEN IF IsFloatLiteral(conc_str)
                       THEN With(OrderedPut(comps_in, el, FloatOf(conc_str)),
                                 LAMBDA filled :
                                    CompsInFrom(filled, combos, entries, i + 1))
                       ELSE [ok |-> FALSE, comps_in |-> comps_in]
                  ELSE CompsInFrom(comps_in, combos, entries, i + 1))

\* A variant of the share computation that leaves out the factor 100.
Share_Fraction(part, total) == DFDiv(part, total)

\* (part / total) * 100
Share(part, total) == DFMul(DFDiv(part, total), DFInt(100))

\* {el: Share(x, total) for el, x in d.items()} if total > 0 else {}
Shares(d, total) ==
    With2(d, total,
          LAMBDA v, t :
             IF DFLess(DFZero, t)
             THEN [i \in 1..Len(v) |-> <<v[i][1], Share(v[i][2], t)>>]
             ELSE <<>>)

\* {el: mass / self.molar_masses[el] for el, mass in mass_percents.items()}
MolesOf(mass_percents, mm) ==
    With(mass_percents,
         LAMBDA v : [i \in 1..Len(v) |-> <<v[i][1], DFDiv(v[i][2], mm[v[i][1]])>>])

\* {el: at_pct * self.molar_masses[el] for el, at_pct in atom_percents.items()}
MassesOf(atom_percents, mm) ==
    With(atom_percents,
         LAMBDA v : [i \in 1..Len(v) |-> <<v[i][1], DFMul(v[i][2], mm[v[i][1]])>>])

\* The unit == 'Mass %' branch, for comps_in whose elements all have a mass.
FromMassPercent(solutes, base_element, total_solute_val, mm) ==
    With(OrderedPut(solutes, base_element, DFSub(DFInt(100), total_solute_val)),
         LAMBDA mass_percents :
            IF \E i \in 1..Len(mass_percents) : mm[mass_percents[i][1]].m = 0
            THEN <<Raised("ZeroDivisionError"), Raised("ZeroDivisionError")>>
            ELSE With(MolesOf(mass_percents, mm),
                      LAMBDA moles :
                         <<ReturnedDict(Shares(moles, DFSum(OrderedValues(moles)))),
                           ReturnedDict(mass_percents)>>))

\* The else branch: the unit is 'Atom %'.
FromAtomPercent(solutes, base_element, total_solute_val, mm) ==
    With(OrderedPut(solutes, base_element, DFSub(DFInt(100), total_solute_val)),
         LAMBDA atom_percents :
            IF OrderedKeys(atom_percents) \subseteq DOMAIN mm
            THEN With(MassesOf(atom_percents, mm),
                      LAMBDA masses :
                         <<ReturnedDict(atom_percents),
                           ReturnedDict(Shares(masses, DFSum(OrderedValues(masses))))>>)
            ELSE <<ReturnedDict(atom_percents), ReturnedText("No mass data")>>)

\* The first element of comps_in, in its order, that has no molar mass.
FirstMissing(comps_in, mm) ==
    comps_in[CHOOSE i \in 1..Len(comps_in) :
                /\ comps_in[i][1] \notin DOMAIN mm
                /\ \A j \in 1..(i - 1) : comps_in[j][1] \in DOMAIN mm][1]

\* get_composition_from_ui from the sum of the solutes on.
FromSolutes(comps_in, solutes, total_solute_val, base_element, unit, mm) ==
    IF ~DFLess(total_solute_val, DFInt(100))
    THEN <<ReturnedText("Total > 100%"), ReturnedText("Total > 100%")>>
    ELSE IF unit = MassPercent
    THEN IF ~(OrderedKeys(comps_in) \subseteq DOMAIN mm)
         THEN <<ReturnedText(<<"No mass for", FirstMissing(comps_in, mm)>>),
                ReturnedText(<<"No mass for", FirstMissing(comps_in, mm)>>)>>
         ELSE FromMassPercent(solutes, base_element, total_solute_val, mm)
    ELSE FromAtomPercent(solutes, base_element, total_solute_val, mm)

\* get_composition_from_ui: the pair (atom_percents, mass_percents) returned.
GetCompositionFromUi(base_element, database, combos, entries, unit, mm) ==
    IF base_element = <<>> \/ database = None
    THEN <<ReturnedText("No DB Loaded"), ReturnedText("No DB Loaded")>>
    ELSE With(CompsInFrom(<< <<base_element, DFZero>> >>, combos, entries, 1),
              LAMBDA filled :
                 IF ~filled.ok
                 THEN <<ReturnedText("Invalid Number"), ReturnedText("Invalid Number")>>
                 ELSE With(OrderedWithout(filled.comps_in, base_element),
                           LAMBDA solutes :
                              IF solutes = <<>>
                              THEN <<ReturnedDict(<< <<base_element, DFInt(100)>> >>),
                                     ReturnedDict(<< <<base_element, DFInt(100)>> >>)>>
                              ELSE With(DFSum(OrderedValues(solutes)),
                                        LAMBDA total_solute_val :
                                           FromSolutes(filled.comps_in, solutes,
                                                       total_solute_val,
                                                       base_element, unit, mm))))

\* The decimal digits of a natural number.
RECURSIVE NatText(_)
NatText(n) ==
    IF n < 10 THEN <<Digits[n + 1]>>
    ELSE NatText(n \div 10) \o <<Digits[(n % 10) + 1]>>

Zeros(n) == [i \in 1..n |-> "0"]

\* The digits of a nonzero float of mantissa digits and exponent e, with
\* the point in its place.
PlaceDigits(digits, e) ==
    IF e >= 0 THEN digits \o Zeros(e)
    ELSE IF -e < Len(digits)
    THEN SubSeq(digits, 1, Len(digits) + e) \o <<".">>
         \o SubSeq(digits, Len(digits) + e + 1, Len(digits))
    ELSE <<"0", ".">> \o Zeros(-e - Len(digits)) \o digits

\* repr(x): a decimal literal that float() reads back as x.
FloatText(x) ==
    With(x,
         LAMBDA v :
            IF v.m = 0 THEN <<"0">>
            ELSE IF v.m < 0
            THEN <<"-">> \o With2(NatText(-v.m), v.e, PlaceDigits)
            ELSE With2(NatText(v.m), v.e, PlaceDigits))

FormIdle ==
    /\ dbf = None
    /\ base_element_combo = <<>>
    /\ solute_combos = [i \in 1..NumSoluteRows |-> <<>>]
    /\ conc_entries = [i \in 1..NumSoluteRows |-> <<>>]
    /\ unit_combo = MassPercent

CompIdle ==
    /\ comp_pc = "idle"
    /\ comp_first = <<>>
    /\ comp_result = <<>>

\* The form is read: update_composition_display calls get_composition_from_ui.
CompConvert ==
    /\ comp_pc \in {"input", "reentered"}
    /\ \E r \in {GetCompositionFromUi(base_element_combo, dbf, solute_combos,
                                       conc_entries, unit_combo, molar_masses)} :
          /\ comp_result' = r
          /\ comp_first' = IF comp_pc = "input" THEN r ELSE comp_first
    /\ comp_pc' = IF comp_pc = "input" THEN "converted" ELSE "converted2"
    /\ UNCHANGED <<startup_vars, scan_vars, browser_vars, scheil_vars, form_vars,
                   app_vars, tdb_vars, calc_vars>>

\* The solutes of a returned dict, as rows of the form: the elements, and the
\* texts of their values.
SoluteRowsOf(sol) ==
    [combos |-> [i \in 1..NumSoluteRows |->
                    IF i <= Len(sol) THEN sol[i][1] ELSE <<>>],
     entries |-> [i \in 1..NumSoluteRows |->
                    IF i <= Len(sol) THEN FloatText(sol[i][2]) ELSE <<>>]]

SoluteRows(d, base_element) == With(OrderedWithout(d, base_element), SoluteRowsOf)

\* The user switches the unit and types, for each solute, the percentage the
\* program computed for it in the other unit.
CompReEnter ==
    /\ comp_pc = "converted"
    /\ comp_result[1].kind = "dict" /\ comp_result[2].kind = "dict"
    /\ \E rows \in {SoluteRows(IF unit_combo = MassPercent
                                 THEN comp_result[1].items
                                 ELSE comp_result[2].items,
                                 base_element_combo)} :
          /\ solute_combos' = rows.combos
          /\ conc_entries' = rows.entries
    /\ unit_combo' = IF unit_combo = MassPercent THEN AtomPercent ELSE MassPercent
    /\ comp_pc' = "reentered"
    /\ UNCHANGED <<startup_vars, scan_vars, browser_vars, scheil_vars, dbf,
                   base_element_combo, comp_first, comp_result, app_vars,
                   tdb_vars, calc_vars>>

(***************************************************************************)
(* The Scheil Calculator's window: ScheilCalculatorApp.                    *)
(***************************************************************************)

\* The calls of run_simulation that can wait in processEvents() at once.
MaxDepth == 2

\* The files the Load Database dialog returns in this model.
ScheilPaths == {Path_ab, Path_c, Path_broken, Path_gone}

\* The texts typed into a concentration entry of the window.  The base
\* element and the unit stay as create_input_form and the load leave them.
AppConcTexts == {<<"4">>}

\* The texts typed into the start temperature entry.
TempTexts == {<<"1", "5", "0", "0">>, <<"1", "5", "x">>}

NoCall == [made |-> FALSE]

\* ScheilCalculatorApp.__init__ and create_input_form
CalcIdle ==
    /\ temp_entry = <<"1", "5", "0", "0">>
    /\ last_sol_res = None
    /\ all_phases = <<>>
    /\ selected_phases = <<>>
    /\ calc_button = [text |-> "Calculate", enabled |-> FALSE]
    /\ select_phases_button = FALSE
    /\ save_csv_button = FALSE
    /\ save_svg_button = FALSE
    /\ current_db_label = "None loaded"
    /\ run_stack = <<>>
    /\ simulate_call = NoCall

\* [p for p in phases if p.upper() not in ['VA', 'LIQUID']]
RECURSIVE SolidPhases(_)
SolidPhases(phases) ==
    IF phases = <<>> THEN <<>>
    ELSE IF Upper(Head(phases)) \in {El_VA, Ph_Liquid}
    THEN SolidPhases(Tail(phases))
    ELSE <<Head(phases)>> \o SolidPhases(Tail(phases))

\* The lists get_selected_phases can return: the checked boxes, in order.
RECURSIVE SubLists(_)
SubLists(boxes) ==
    IF boxes = <<>> THEN {<<>>}
    ELSE LET rest == SubLists(Tail(boxes)) IN
         rest \cup {<<Head(boxes)>> \o r : r \in rest}

\* What a variant of load_database_from_path's except branch does to the
\* buttons: it leaves Select Phases as it was.
LoadFailure_KeepsSelect(select_before) ==
    [dbf |-> None, calc_enabled |-> FALSE, select_enabled |-> select_before,
     label |-> "Load Failed"]

\* load_database_from_path's except branch, after the error message:
\*   self.dbf = None; both buttons disabled; the label reads "Load Failed"
LoadFailure(select_before) ==
    [dbf |-> None, calc_enabled |-> FALSE, select_enabled |-> FALSE,
     label |-> "Load Failed"]

\* open_database_file_dialog, the dialog cancelled.
OpenDatabaseFileDialogCancelled ==
    /\ last_event' = "open_database_file_dialog: cancelled"
    /\ message_box' = NoDialog
    /\ escaped' = FALSE
    /\ simulate_call' = NoCall
    /\ UNCHANGED <<scheil_vars, form_vars, temp_entry, last_sol_res, all_phases,
                   selected_phases, calc_button, select_phases_button,
                   save_csv_button, save_svg_button, current_db_label,
                   run_stack>>
    /\ UNCHANGED <<startup_vars, scan_vars, browser_vars, comp_vars, tdb_vars>>

\* A variant of load_database_from_path for a path that does not exist: it
\* forgets the database and leaves both buttons as they were.
LoadMissingPath_KeepsButtons(dbf_path) ==
    /\ ~PathExists(dbf_path)
    /\ dbf' = None
    /\ UNCHANGED <<calc_button, select_phases_button>>
    /\ current_db_label' = "None loaded"
    /\ last_event' = "load_database_from_path: no such path"
    /\ message_box' = NoDialog
    /\ escaped' = FALSE
    /\ UNCHANGED <<scheil_vars, base_element_combo, solute_combos, conc_entries,
                   unit_combo, temp_entry, last_sol_res, all_phases,
                   selected_phases, save_csv_button, save_svg_button, run_stack>>
    /\ simulate_call' = NoCall
    /\ UNCHANGED <<startup_vars, scan_vars, browser_vars, comp_vars, tdb_vars>>

\* load_database_from_path for a path that does not exist.
LoadMissingPath(dbf_path) ==
    /\ ~PathExists(dbf_path)
    /\ dbf' = None
    /\ calc_button' = [calc_button EXCEPT !.enabled = FALSE]
    /\ select_phases_button' = FALSE
    /\ current_db_label' = "None loaded"
    /\ last_event' = "load_database_from_path: no such path"
    /\ message_box' = NoDialog
    /\ escaped' = FALSE
    /\ UNCHANGED <<scheil_vars, base_element_combo, solute_combos, conc_entries,
                   unit_combo, temp_entry, last_sol_res, all_phases,
                   selected_phases, save_csv_button, save_svg_button, run_stack>>
    /\ simulate_call' = NoCall
    /\ UNCHANGED <<startup_vars, scan_vars, browser_vars, comp_vars, tdb_vars>>

\* load_database_from_path, Database(dbf_path) raising: the except branch.
LoadFailed(dbf_path) ==
    /\ PathExists(dbf_path)
    /\ DatabaseRaises(dbf_path)
    /\ message_box' = Dialog("error", "Failed to load database")
    /\ dbf' = LoadFailure(select_phases_button).dbf
    /\ calc_button' =
          [calc_button EXCEPT !.enabled = LoadFailure(select_phases_button).calc_enabled]
    /\ select_phases_button' = LoadFailure(select_phases_button).select_enabled
    /\ current_db_label' = LoadFailure(select_phases_button).label
    /\ last_event' = "load_database_from_path: Database raised"
    /\ escaped' = FALSE
    /\ UNCHANGED <<scheil_vars, base_element_combo, solute_combos, conc_entries,
                   unit_combo, temp_entry, last_sol_res, all_phases,
                   selected_phases, save_csv_button, save_svg_button, run_stack>>
    /\ simulate_call' = NoCall
    /\ UNCHANGED <<startup_vars, scan_vars, browser_vars, comp_vars, tdb_vars>>

\* load_database_from_path, the try block running to its end.
LoadDatabase(dbf_path) ==
    /\ PathExists(dbf_path)
    /\ ~DatabaseRaises(dbf_path)
    /\ dbf' = dbf_path
    /\ molar_masses' = MolarMassesOf(EmptyDict, LinesOf(dbf_path))
    /\ available_elements' = AvailableElements(molar_masses')
    /\ current_db_label' = Basename(dbf_path)
    /\ base_element_combo' = IF available_elements' = <<>> THEN <<>>
                             ELSE available_elements'[1]
    /\ solute_combos' = [i \in 1..NumSoluteRows |-> <<>>]
    /\ conc_entries' = [i \in 1..NumSoluteRows |-> <<>>]
    /\ all_phases' = ListedPhases(dbf_path)
    /\ selected_phases' = SolidPhases(all_phases')
    /\ select_phases_button' = TRUE
    /\ save_csv_button' = FALSE
    /\ save_svg_button' = FALSE
    /\ last_sol_res' = None
    /\ calc_button' = [calc_button EXCEPT !.enabled = TRUE]
    /\ last_event' = "load_database_from_path: loaded"
    /\ message_box' = NoDialog
    /\ escaped' = FALSE
    /\ simulate_call' = NoCall
    /\ UNCHANGED <<unit_combo, temp_entry, run_stack>>
    /\ UNCHANGED <<startup_vars, scan_vars, browser_vars, comp_vars, tdb_vars>>

\* _on_select_phases_clicked, the dialog accepted with the boxes of chosen
\* checked, or rejected (accepted FALSE).  The handler ends with
\* update_output_display(), which does nothing without a result and
\* otherwise draws it again and enables both save buttons, or raises.
OnSelectPhasesClicked(accepted, chosen, display_ok) ==
    /\ select_phases_button
    /\ IF dbf = None
       THEN /\ message_box' = Dialog("error", "Please load a TDB database file first.")
            /\ escaped' = FALSE
            /\ UNCHANGED <<selected_phases, save_csv_button, save_svg_button>>
       ELSE /\ message_box' = NoDialog
            /\ chosen \in SubLists(SortedStrs(Range(SolidPhases(all_phases))))
            /\ selected_phases' = IF accepted THEN chosen ELSE selected_phases
            /\ escaped' = (last_sol_res # None /\ ~display_ok)
            /\ save_csv_button' = IF last_sol_res # None /\ display_ok
                                  THEN TRUE ELSE save_csv_button
            /\ save_svg_button' = IF last_sol_res # None /\ display_ok
                                  THEN TRUE ELSE save_svg_button
    /\ last_event' = "_on_select_phases_clicked"
    /\ UNCHANGED <<scheil_vars, form_vars, temp_entry, last_sol_res, all_phases,
                   calc_button, select_phases_button, current_db_label,
                   run_stack>>
    /\ simulate_call' = NoCall
    /\ UNCHANGED <<startup_vars, scan_vars, browser_vars, comp_vars, tdb_vars>>

\* What every edit of the form leaves alone.
EditLeavesAlone ==
    /\ last_event' = "edit"
    /\ message_box' = NoDialog
    /\ escaped' = FALSE
    /\ UNCHANGED <<scheil_vars, dbf, last_sol_res, all_phases, selected_phases,
                   calc_button, select_phases_button, save_csv_button,
                   save_svg_button, current_db_label, run_stack>>
    /\ simulate_call' = NoCall
    /\ UNCHANGED <<startup_vars, scan_vars, browser_vars, comp_vars, tdb_vars>>

\* The user picks an item of a solute combo: '' or an element.
SetSoluteCombo(i, el) ==
    /\ el \in Range(available_elements) \cup {<<>>}
    /\ solute_combos' = [solute_combos EXCEPT ![i] = el]
    /\ UNCHANGED <<base_element_combo, conc_entries, unit_combo, temp_entry>>
    /\ EditLeavesAlone

\* The user types into a concentration entry.
SetConcEntry(i, text) ==
    /\ conc_entries' = [conc_entries EXCEPT ![i] = text]
    /\ UNCHANGED <<base_element_combo, solute_combos, unit_combo, temp_entry>>
    /\ EditLeavesAlone

\* The user types into the start temperature entry.
SetTempEntry(text) ==
    /\ temp_entry' = text
    /\ UNCHANGED <<base_element_combo, solute_combos, conc_entries, unit_combo>>
    /\ EditLeavesAlone

\* run_simulation from the click on Calculate to QApplication.processEvents():
\* the composition is read; an invalid one ends the handler with a message;
\* otherwise the try block starts and the call waits in processEvents().
RunSimulationBegin ==
    /\ calc_button.enabled
    /\ Len(run_stack) < MaxDepth
    /\ \E atom_percents \in
             {GetCompositionFromUi(base_element_combo, dbf, solute_combos,
                                   conc_entries, unit_combo, molar_masses)[1]} :
           IF atom_percents.kind = "raise"
           THEN /\ escaped' = TRUE
                /\ message_box' = NoDialog
                /\ last_event' = "run_simulation: composition raised"
                /\ UNCHANGED <<last_sol_res, save_csv_button, save_svg_button,
                               run_stack>>
           ELSE IF atom_percents.kind # "dict" \/ Len(atom_percents.items) <= 1
           THEN /\ escaped' = FALSE
                /\ message_box' = Dialog("error", "Invalid composition or no solutes entered.")
                /\ last_event' = "run_simulation: invalid composition"
                /\ UNCHANGED <<last_sol_res, save_csv_button, save_svg_button,
                               run_stack>>
           ELSE /\ escaped' = FALSE
                /\ message_box' = NoDialog
                /\ last_event' = "run_simulation: processEvents"
                /\ last_sol_res' = None
                /\ save_csv_button' = FALSE
                /\ save_svg_button' = FALSE
                /\ run_stack' = Append(run_stack, atom_percents.items)
    /\ UNCHANGED <<scheil_vars, form_vars, temp_entry, all_phases, selected_phases,
                   calc_button, select_phases_button, current_db_label>>
    /\ simulate_call' = NoCall
    /\ UNCHANGED <<startup_vars, scan_vars, browser_vars, comp_vars, tdb_vars>>

\* list(atom_percents.keys()) + ['VA']
ComponentList(atom_percents) ==
    [i \in 1..Len(atom_percents) |-> atom_percents[i][1]] \o <<El_VA>>

\* What the library does in the rest of the try block.
LibraryOutcomes == {"returns", "simulate raises", "display raises"}

\* run_simulation from the return of processEvents() to its end, for the call
\* that entered processEvents() last.  The float() of the temperature may
\* raise; the simulation may raise (and does, without a database); and
\* update_output_display may raise after the result has been assigned.
RunSimulationResume(library) ==
    /\ run_stack # <<>>
    /\ LET atom_percents == run_stack[Len(run_stack)]
           bad_number == ~IsFloatLiteral(Strip(temp_entry))
           outcome == IF bad_number THEN "float raises"
                      ELSE IF dbf = None THEN "simulate raises"
                      ELSE library
           finally_enabled == IF dbf # None THEN TRUE
                              ELSE IF bad_number THEN calc_button.enabled
                              ELSE FALSE
       IN  /\ simulate_call' =
                 IF bad_number THEN NoCall
                 ELSE [made |-> TRUE, dbf |-> dbf,
                       component_list |-> ComponentList(atom_percents),
                       phases |-> <<Ph_Liquid, El_VA>> \o selected_phases]
           /\ last_sol_res' = IF outcome \in {"returns", "display raises"}
                              THEN "SolidificationResult" ELSE last_sol_res
           /\ save_csv_button' = IF outcome = "returns" THEN TRUE ELSE save_csv_button
           /\ save_svg_button' = IF outcome = "returns" THEN TRUE ELSE save_svg_button
           /\ message_box' = IF outcome = "returns" THEN NoDialog
                             ELSE Dialog("error", "An error occurred during simulation")
           /\ calc_button' = [text |-> "Calculate", enabled |-> finally_enabled]
           /\ last_event' = IF outcome = "returns" THEN "run_simulation: done"
                            ELSE "run_simulation: error reported"
    /\ run_stack' = SubSeq(run_stack, 1, Len(run_stack) - 1)
    /\ escaped' = FALSE
    /\ UNCHANGED <<scheil_vars, form_vars, temp_entry, all_phases, selected_phases,
                   select_phases_button, current_db_label>>
    /\ UNCHANGED <<startup_vars, scan_vars, browser_vars, comp_vars, tdb_vars>>

(***************************************************************************)
(* Module startup: find_qt_plugin_path and the block that uses it.         *)
(***************************************************************************)

\* qt_bindings: the list the for loop walks, in its order.
qt_bindings == <<"PySide6", "PyQt6", "PySide2", "PyQt5">>

\* os.path.join(base_path, plugins_subdir) for each entry of qt_bindings.
PluginDir(b) ==
    CASE b = "PySide6" -> "PySide6/plugins"
      [] b = "PyQt6"   -> "PyQt6/Qt6/plugins"
      [] b = "PySide2" -> "PySide2/plugins"
      [] b = "PyQt5"   -> "PyQt5/Qt/plugins"

\* What the file system holds for one binding:
\*   "missing"     __import__ raises ImportError
\*   "no_plugins"  the import succeeds, os.path.isdir(plugin_path) is false
\*   "ok"          the import succeeds and the plugins directory exists
InstallStates == {"missing", "no_plugins", "ok"}

BindingNames == {qt_bindings[i] : i \in 1..Len(qt_bindings)}

StartupIdle ==
    /\ installed = [b \in BindingNames |-> "missing"]
    /\ binding_idx = 1
    /\ qt_plugin_path = None
    /\ env_plugin_path = None
    /\ startup_pc = "idle"
    /\ exit_status = <<>>

\* A variant of the loop body that returns the path of any importable
\* binding without asking whether its plugins directory exists.
TryBinding_NoDirCheck ==
    /\ startup_pc = "search"
    /\ binding_idx <= Len(qt_bindings)
    /\ LET b == qt_bindings[binding_idx] IN
         IF installed[b] = "missing"
         THEN /\ binding_idx' = binding_idx + 1
              /\ UNCHANGED <<qt_plugin_path, startup_pc>>
         ELSE /\ qt_plugin_path' = PluginDir(b)
              /\ startup_pc' = "found_or_not"
              /\ UNCHANGED binding_idx
    /\ UNCHANGED <<installed, env_plugin_path, exit_status>>
    /\ UNCHANGED <<scan_vars, browser_vars, scheil_vars, form_vars, comp_vars, app_vars,
                   tdb_vars, calc_vars>>

\* One iteration of find_qt_plugin_path's for loop.
TryBinding ==
    /\ startup_pc = "search"
    /\ binding_idx <= Len(qt_bindings)
    /\ LET b == qt_bindings[binding_idx] IN
         IF installed[b] = "missing"
         THEN \* except ImportError: continue
              /\ binding_idx' = binding_idx + 1
              /\ UNCHANGED <<qt_plugin_path, startup_pc>>
         ELSE IF installed[b] = "ok"
         THEN \* os.path.isdir(plugin_path): return plugin_path
              /\ qt_plugin_path' = PluginDir(b)
              /\ startup_pc' = "found_or_not"
              /\ UNCHANGED binding_idx
         ELSE \* the directory does not exist: next binding
              /\ binding_idx' = binding_idx + 1
              /\ UNCHANGED <<qt_plugin_path, startup_pc>>
    /\ UNCHANGED <<installed, env_plugin_path, exit_status>>
    /\ UNCHANGED <<scan_vars, browser_vars, scheil_vars, form_vars, comp_vars, app_vars,
                   tdb_vars, calc_vars>>

\* The loop is exhausted: return None.
SearchExhausted ==
    /\ startup_pc = "search"
    /\ binding_idx > Len(qt_bindings)
    /\ qt_plugin_path' = None
    /\ startup_pc' = "found_or_not"
    /\ UNCHANGED <<installed, binding_idx, env_plugin_path, exit_status>>
    /\ UNCHANGED <<scan_vars, browser_vars, scheil_vars, form_vars, comp_vars, app_vars,
                   tdb_vars, calc_vars>>

\* if qt_plugin_path: os.environ['QT_PLUGIN_PATH'] = qt_plugin_path
SetPluginPath ==
    /\ startup_pc = "found_or_not"
    /\ qt_plugin_path # None
    /\ env_plugin_path' = qt_plugin_path
    /\ startup_pc' = "import_qt"
    /\ UNCHANGED <<installed, binding_idx, qt_plugin_path, exit_status>>
    /\ UNCHANGED <<scan_vars, browser_vars, scheil_vars, form_vars, comp_vars, app_vars,
                   tdb_vars, calc_vars>>

\* else: sys.exit(1)
FatalNoPlugins ==
    /\ startup_pc = "found_or_not"
    /\ qt_plugin_path = None
    /\ exit_status' = <<1>>
    /\ startup_pc' = "exited"
    /\ UNCHANGED <<installed, binding_idx, qt_plugin_path, env_plugin_path>>
    /\ UNCHANGED <<scan_vars, browser_vars, scheil_vars, form_vars, comp_vars, app_vars,
                   tdb_vars, calc_vars>>

\* from PyQt6.QtWidgets import ...: the binding the application runs on.
\* With PyQt6 missing the import raises ImportError, which nothing catches:
\* the interpreter prints the traceback and exits with status 1.
ImportPyQt6 ==
    /\ startup_pc = "import_qt"
    /\ IF installed["PyQt6"] = "missing"
       THEN /\ exit_status' = <<1>>
            /\ startup_pc' = "exited"
       ELSE /\ startup_pc' = "main"
            /\ UNCHANGED exit_status
    /\ UNCHANGED <<installed, binding_idx, qt_plugin_path, env_plugin_path>>
    /\ UNCHANGED <<scan_vars, browser_vars, scheil_vars, form_vars, comp_vars, app_vars,
                   tdb_vars, calc_vars>>

\* main(): app = QApplication(sys.argv)
CreateQApplication ==
    /\ startup_pc = "main"
    /\ startup_pc' = "running"
    /\ UNCHANGED <<installed, binding_idx, qt_plugin_path, env_plugin_path,
                   exit_status>>
    /\ UNCHANGED <<scan_vars, browser_vars, scheil_vars, form_vars, comp_vars, app_vars,
                   tdb_vars, calc_vars>>

(***************************************************************************)
(* The specifications.                                                     *)
(***************************************************************************)

StartupInit ==
    /\ installed \in [BindingNames -> InstallStates]
    /\ binding_idx = 1
    /\ qt_plugin_path = None
    /\ env_plugin_path = None
    /\ startup_pc = "search"
    /\ exit_status = <<>>
    /\ ScanIdle
    /\ BrowserIdle
    /\ TdbIdle
    /\ AppIdle
    /\ CalcIdle
    /\ ScheilIdle
    /\ FormIdle
    /\ CompIdle

StartupNext ==
    \/ TryBinding
    \/ SearchExhausted
    \/ SetPluginPath
    \/ FatalNoPlugins
    \/ ImportPyQt6
    \/ CreateQApplication

SpecStartup == StartupInit /\ [][StartupNext]_vars

BrowserInit ==
    /\ StartupIdle
    /\ ScanIdle
    /\ BrowserIdle
    /\ ScheilIdle
    /\ FormIdle
    /\ CompIdle
    /\ TdbIdle
    /\ AppIdle
    /\ CalcIdle

BrowserNext ==
    \/ OpenFileDialogCancelled
    \/ \E file_path \in TdbPaths : OpenFileDialog(file_path)
    \/ \E item \in Range(phase_list_widget) : DisplayPhaseDetails(item)
    \/ \E item \in Range(element_list_widget), readable \in BOOLEAN :
          DisplayElementInteractions(item, readable)
    \/ ShowAboutDialog

SpecBrowser == BrowserInit /\ [][BrowserNext]_vars

ScheilInit ==
    /\ StartupIdle
    /\ ScanIdle
    /\ BrowserIdle
    /\ TdbIdle
    /\ AppIdle
    /\ ScheilIdle
    /\ FormIdle
    /\ CompIdle
    /\ CalcIdle

ScheilNext ==
    \/ OpenDatabaseFileDialogCancelled
    \/ \E dbf_path \in ScheilPaths : LoadMissingPath(dbf_path)
    \/ \E dbf_path \in ScheilPaths : LoadFailed(dbf_path)
    \/ \E dbf_path \in ScheilPaths : LoadDatabase(dbf_path)
    \/ \E accepted \in BOOLEAN, chosen \in SubLists(SolidPhases(all_phases)),
          display_ok \in BOOLEAN :
          OnSelectPhasesClicked(accepted, chosen, display_ok)
    \/ \E i \in 1..NumSoluteRows, el \in Range(available_elements) \cup {<<>>} :
          SetSoluteCombo(i, el)
    \/ \E i \in 1..NumSoluteRows, text \in AppConcTexts : SetConcEntry(i, text)
    \/ \E text \in TempTexts : SetTempEntry(text)
    \/ RunSimulationBegin
    \/ \E library \in LibraryOutcomes : RunSimulationResume(library)

SpecScheil == ScheilInit /\ [][ScheilNext]_vars

\* The database whose molar masses the conversions use.
CompFile == <<E_A1, E_B, E_C>>

\* The texts typed into the concentration entries.
ConcTexts == {<<>>, <<"4">>, <<"3", "3", ".", "3">>, <<"6", "0">>,
              <<"-", "9", "0", "0">>, <<"x">>}

CompInit ==
    /\ StartupIdle
    /\ ScanIdle
    /\ BrowserIdle
    /\ TdbIdle
    /\ AppIdle
    /\ CalcIdle
    /\ molar_masses = MolarMassesOf(EmptyDict, CompFile)
    /\ available_elements = AvailableElements(molar_masses)
    /\ dbf = "db"
    /\ base_element_combo \in Range(available_elements)
    /\ solute_combos \in [1..NumSoluteRows -> Range(available_elements) \cup {<<>>}]
    /\ conc_entries \in [1..NumSoluteRows -> ConcTexts]
    /\ unit_combo \in {MassPercent, AtomPercent}
    /\ comp_pc = "input"
    /\ comp_first = <<>>
    /\ comp_result = <<>>

CompNext ==
    \/ CompConvert
    \/ CompReEnter

SpecComp == CompInit /\ [][CompNext]_vars

\* The files of at most MaxLines lines over FileLines.
Files == UNION {[1..n -> FileLines] : n \in 0..MaxLines}

ScanInit ==
    /\ StartupIdle
    /\ BrowserIdle
    /\ TdbIdle
    /\ AppIdle
    /\ CalcIdle
    /\ ScheilIdle
    /\ FormIdle
    /\ CompIdle
    /\ scan_tool \in {"browser", "scheil"}
    /\ scan_pc = "idle"
    /\ file_lines \in Files
    /\ lines_read = <<>>
    /\ item_text = <<>>
    /\ selected_element = <<>>
    /\ ref_phase = <<>>
    /\ molar_mass = <<>>
    /\ hser = <<>>
    /\ sser = <<>>
    /\ unique_interactions = {}

ScanNext ==
    \/ \E item \in ScanItems : BrowserScanBegin(item)
    \/ BrowserScanLine
    \/ BrowserScanEnd
    \/ ScheilScanBegin
    \/ ScheilScanLine
    \/ ScheilScanEnd

SpecScan == ScanInit /\ [][ScanNext]_vars

(***************************************************************************)
(* Properties of the reference-data extractor.                             *)
(***************************************************************************)

\* t[1] < t[2] < ... in Python's string order: sorted, no element twice.
StrictlySorted(t) == \A i \in 1..(Len(t) - 1) : StrLess(t[i], t[i + 1])

\* Line s is a PARAMETER line carrying a phase name and a constituent list:
\* after "PARAMETER" there is a '(', a non-empty phase name up to the next
\* ',', and a non-empty constituent list up to the next ';'.
IsParameterLine(s) ==
    /\ StartsWith(Upper(Strip(s)), KwParameter)
    /\ LET p == FirstAfter(s, 0, "(")
           c == FirstAfter(s, p, ",")
       IN  p > 0 /\ c > p + 1 /\ FirstAfter(s, c, ";") > c + 1

\* The phase name such a line names, upper-cased or as written.
LinePhase(s, up) ==
    LET p == FirstAfter(s, 0, "(")
        c == FirstAfter(s, p, ",")
        raw == Strip(SubSeq(s, p + 1, c - 1))
    IN  IF up THEN Upper(raw) ELSE raw

\* The set of constituents such a line names, upper-cased or as written:
\* the pieces of the list between ',' and ':' separators and blanks.
RECURSIVE PiecesAcc(_, _, _)
PiecesAcc(s, cur, acc) ==
    IF s = <<>>
    THEN IF cur = <<>> THEN acc ELSE acc \cup {cur}
    ELSE IF Head(s) \in WhitespaceChars \cup {",", ":"}
         THEN PiecesAcc(Tail(s), <<>>, IF cur = <<>> THEN acc ELSE acc \cup {cur})
         ELSE PiecesAcc(Tail(s), Append(cur, Head(s)), acc)

LineConstituents(s, up) ==
    LET p == FirstAfter(s, 0, "(")
        c == FirstAfter(s, p, ",")
        e == FirstAfter(s, c, ";")
        raw == SubSeq(s, c + 1, e - 1)
    IN  PiecesAcc(IF up THEN Upper(raw) ELSE raw, <<>>, {})

\* Line s is an element declaration 'ELEMENT <name> <ref> <mass> <hser>
\* <sser>' of the element the user clicked, the name compared without regard
\* to case.
IsElementLineOf(s, item) ==
    /\ StartsWith(Strip(s), KwElementSp)
    /\ Len(Split(s)) >= 6
    /\ Upper(Split(s)[2]) = Upper(item)

\* C1: the accumulated interaction records are a deduplicated set of
\* (phase, sorted element tuple): every record's tuple is strictly sorted, no
\* two records have the same phase and the same set of elements, two
\* PARAMETER lines naming the same phase and the same constituents (in any
\* order, with any separators) are represented by exactly one record, and the
\* list shown at the end has one entry per record.
C1_InteractionsDeduplicated ==
    scan_tool = "browser" =>
      /\ \A r \in unique_interactions : StrictlySorted(r[2])
      /\ \A r1, r2 \in unique_interactions :
            (r1[1] = r2[1] /\ Range(r1[2]) = Range(r2[2])) => r1 = r2
      /\ \A i, j \in 1..Len(lines_read) :
            LET a == lines_read[i]
                b == lines_read[j]
            IN  ( /\ i < j
                  /\ IsParameterLine(a) /\ IsParameterLine(b)
                  /\ LinePhase(a, TRUE) = LinePhase(b, TRUE)
                  /\ LineConstituents(a, TRUE) = LineConstituents(b, TRUE)
                  /\ selected_element \in LineConstituents(a, TRUE)
                  /\ Cardinality(LineConstituents(a, TRUE)) > 1 )
                => Cardinality({r \in unique_interactions :
                                  /\ r[1] = LinePhase(a, TRUE)
                                  /\ Range(r[2]) = LineConstituents(a, TRUE)}) = 1
      /\ scan_pc = "shown" =>
            /\ Len(details_text_edit.interactions) = Cardinality(unique_interactions)
            /\ Range(details_text_edit.interactions) = unique_interactions

\* C1's case: two lines naming the same interaction in different order and
\* with different separators have been scanned and one record is held.
C1_Witness ==
    /\ scan_pc = "shown"
    /\ selected_element = <<"A">>
    /\ lines_read = <<P_LAB, P_LBA>>
    /\ unique_interactions = {<< <<"L">>, << <<"A">>, <<"B">> >> >>}

\* C2: every accumulated record names the queried element and at least one
\* other element, and it is the record of a scanned PARAMETER line naming
\* exactly its elements; so a line without the queried element, or with the
\* queried element alone, adds no record.
C2_RecordsNameQueriedAndAnother ==
    scan_tool = "browser" =>
      \A r \in unique_interactions :
         /\ selected_element \in Range(r[2])
         /\ \E e \in Range(r[2]) : e # selected_element
         /\ \E i \in 1..Len(lines_read) :
               /\ IsParameterLine(lines_read[i])
               /\ LineConstituents(lines_read[i], TRUE) = Range(r[2])
               /\ LinePhase(lines_read[i], TRUE) = r[1]

\* C2's case: a line naming the queried element alone and a line without it
\* have been scanned and no record was added.
C2_Witness ==
    /\ scan_pc = "shown"
    /\ selected_element = <<"A">>
    /\ lines_read = <<P_LAA, P_LBC>>
    /\ unique_interactions = {}

\* The reference data are those of line s, upper-cased or as written.
RefDataFrom(s, up) ==
    LET t == IF up THEN Split(Upper(s)) ELSE Split(s) IN
    /\ ref_phase = t[3]
    /\ molar_mass = t[4]
    /\ hser = t[5]
    /\ sser = t[6]

\* C3: at most one reference-data tuple is held: the four fields are all
\* absent or all those of one scanned ELEMENT line of the queried element,
\* and the details pane shows them so.
C3_OneReferenceTuple ==
    scan_tool = "browser" =>
      /\ \/ ref_phase = <<>> /\ molar_mass = <<>> /\ hser = <<>> /\ sser = <<>>
         \/ \E i \in 1..Len(lines_read) :
               /\ IsElementLineOf(lines_read[i], item_text)
               /\ RefDataFrom(lines_read[i], TRUE)
      /\ scan_pc = "shown" =>
           IF ref_phase = <<>>
           THEN /\ details_text_edit.ref_phase = NotFound
                /\ details_text_edit.molar_mass = NotFound
                /\ details_text_edit.hser = NotFound
                /\ details_text_edit.sser = NotFound
           ELSE /\ details_text_edit.ref_phase = ref_phase
                /\ details_text_edit.molar_mass = molar_mass
                /\ details_text_edit.hser = hser
                /\ details_text_edit.sser = sser

\* C3's case: two declarations of the queried element and the data shown are
\* those of the second alone.
C3_Witness ==
    /\ scan_pc = "shown"
    /\ selected_element = <<"A">>
    /\ lines_read = <<E_A1, E_A2>>
    /\ details_text_edit.ref_phase = <<"G">>
    /\ details_text_edit.sser = <<"6">>

\* The statement of C4 with the tokens upper-cased (up) or as the line
\* writes them: once the last line scanned is an element declaration of the
\* queried element, the reference data are its 3rd to 6th tokens; once it is
\* a PARAMETER line naming the queried element and another, its phase name
\* and constituents are on record; and what is held is what is shown.
C4_Statement(up) ==
    (scan_tool = "browser" /\ lines_read # <<>>) =>
      LET s == lines_read[Len(lines_read)] IN
      /\ IsElementLineOf(s, item_text) =>
            /\ RefDataFrom(s, up)
            /\ scan_pc = "shown" =>
                  /\ details_text_edit.ref_phase = ref_phase
                  /\ details_text_edit.molar_mass = molar_mass
                  /\ details_text_edit.hser = hser
                  /\ details_text_edit.sser = sser
      /\ ( /\ IsParameterLine(s)
           /\ Upper(item_text) \in LineConstituents(s, TRUE)
           /\ Cardinality(LineConstituents(s, TRUE)) > 1 ) =>
            /\ \E r \in unique_interactions :
                  /\ r[1] = LinePhase(s, up)
                  /\ Range(r[2]) = LineConstituents(s, up)
            /\ scan_pc = "shown" =>
                  \E k \in 1..Len(details_text_edit.interactions) :
                     /\ details_text_edit.interactions[k][1] = LinePhase(s, up)
                     /\ Range(details_text_edit.interactions[k][2])
                           = LineConstituents(s, up)

\* C4 as stated: the fields are exactly the tokens of the line.
C4_Original == C4_Statement(FALSE)

\* C4, amended: the fields are the tokens of the line, upper-cased.
C4_UpperCasedFields == C4_Statement(TRUE)

\* C4's case: a declaration written in lower case has been scanned and its
\* fields are shown in upper case.
C4_Witness ==
    /\ scan_pc = "shown"
    /\ lines_read = <<P_lower, E_lower>>
    /\ item_text = <<"A">>
    /\ details_text_edit.ref_phase = <<"F">>
    /\ details_text_edit.molar_mass = <<"7", ".", "5">>
    /\ details_text_edit.interactions = << << <<"L">>, << <<"A">>, <<"B">> >> >> >>

\* A line the Database Browser's reader has nothing to take from: blank, a
\* '$' comment, an ELEMENT line of fewer than 6 tokens, or a PARAMETER line
\* the parameter pattern does not match.
MalformedForBrowser(line) ==
    LET c == Upper(Strip(line)) IN
    \/ c = <<>>
    \/ StartsWith(c, <<"$">>)
    \/ StartsWith(c, KwElementSp) /\ Len(Split(c)) < 6
    \/ StartsWith(c, KwParameter) /\ ParamRegexSearch(c) = <<>>

\* A line the Scheil Calculator's reader has nothing to take from: an ELEMENT
\* line of fewer than 4 tokens, or one whose mass is no number.
MalformedForScheil(line) ==
    LET c == Upper(Strip(line)) IN
    /\ StartsWith(c, KwElementSp)
    /\ \/ Len(Split(c)) < 4
       \/ ~IsFloatLiteral(Split(c)[4])

\* The lines of a sequence that are not malformed, in order.
RECURSIVE WithoutMalformed(_, _)
WithoutMalformed(lines, tool) ==
    IF lines = <<>> THEN <<>>
    ELSE LET rest == WithoutMalformed(Tail(lines), tool)
             bad == IF tool = "browser"
                    THEN MalformedForBrowser(Head(lines))
                    ELSE MalformedForScheil(Head(lines))
         IN  IF bad THEN rest ELSE <<Head(lines)>> \o rest

\* C5: a malformed line is skipped.  What either reader holds after any
\* number of lines is what it would hold had the malformed lines not been in
\* the file, and a reader is done only when it has read the whole file: no
\* malformed line changes the accumulated data or stops the scan.
C5_MalformedLinesSkipped ==
    /\ scan_pc \in {"idle", "scan", "shown"}
    /\ scan_pc = "shown" => lines_read = file_lines
    /\ scan_tool = "browser" /\ scan_pc # "idle" =>
          ScanLocals = BrowserScanOf(NoLocals,
                                     WithoutMalformed(lines_read, "browser"),
                                     selected_element)
    /\ scan_tool = "scheil" /\ scan_pc # "idle" =>
          molar_masses = MolarMassesOf(EmptyDict,
                                       WithoutMalformed(lines_read, "scheil"))

\* C5's case: a comment line was read, then a well-formed declaration, and
\* the declaration's data are shown.
C5_Witness ==
    /\ scan_tool = "browser"
    /\ scan_pc = "shown"
    /\ lines_read = <<L_comment, E_A1>>
    /\ selected_element = <<"A">>
    /\ details_text_edit.ref_phase = <<"F">>

(***************************************************************************)
(* Properties of the two windows, the composition form and the startup.    *)
(***************************************************************************)

\* C6: when Database(file_path) raises in read_tdb_file, the exception is
\* caught and shown in an error dialog, it leaves no handler, and afterwards
\* db and current_file_path are None and the element list, the phase list
\* and the details pane are empty.
C6_FailedReadLeavesNothing ==
    last_event = "open_file_dialog: Database raised" =>
        /\ message_box = Dialog("critical", "Failed to read TDB file")
        /\ ~escaped
        /\ db = None
        /\ current_file_path = None
        /\ element_list_widget = <<>>
        /\ phase_list_widget = <<>>
        /\ details_text_edit = EmptyDetails

\* C6's case: the file chosen last was one Database() raises on.
C6_Witness ==
    /\ last_event = "open_file_dialog: Database raised"
    /\ db_label.arg = "broken.tdb"
    /\ message_box.kind = "critical"

\* C7: when Database(dbf_path) raises in load_database_from_path, the
\* exception is shown in an error dialog and leaves no handler, and afterwards
\* dbf is None, Calculate and Select Phases are disabled and the database
\* label reads 'Load Failed'.
C7_FailedLoadLeavesNoDatabase ==
    last_event = "load_database_from_path: Database raised" =>
        /\ message_box = Dialog("error", "Failed to load database")
        /\ ~escaped
        /\ dbf = None
        /\ ~calc_button.enabled
        /\ ~select_phases_button
        /\ current_db_label = "Load Failed"

\* C7's case: a load failed in a window that had a database loaded before,
\* whose buttons were enabled.
C7_Witness ==
    /\ last_event = "load_database_from_path: Database raised"
    /\ available_elements # <<>>
    /\ all_phases # <<>>
    /\ dbf = None

\* C8: whenever run_simulation reports an error raised inside its try block,
\* the error is shown in a dialog and leaves no handler, and after the handler
\* returns no result is held, both save buttons are disabled, and Calculate
\* shows 'Calculate' and is enabled if a database is loaded.
C8_ErrorLeavesNoResult ==
    last_event = "run_simulation: error reported" =>
        /\ message_box = Dialog("error", "An error occurred during simulation")
        /\ ~escaped
        /\ last_sol_res = None
        /\ ~save_csv_button
        /\ ~save_svg_button
        /\ calc_button.text = "Calculate"
        /\ (dbf # None => calc_button.enabled)

\* A returned dict as a mapping: dicts are equal whatever their order.
AsMap(d) == [k \in OrderedKeys(d) |-> OrderedGet(d, k)]

\* The position, in the returned pair, of the percentages in the unit the
\* user typed first: the unit has been switched once since.
TypedFirst == IF unit_combo = AtomPercent THEN 2 ELSE 1

\* The first input was a valid composition: the conversion returned dicts.
ValidFirst == comp_first[1].kind = "dict" /\ comp_first[2].kind = "dict"

WithinUnits(a, b, n) ==
    LET e0 == 2 - FloatDigits
        e1 == IF a.e < b.e THEN a.e ELSE b.e
        e == IF e1 < e0 THEN e1 ELSE e0
    IN  Abs(a.m * Pow10(a.e - e) - b.m * Pow10(b.e - e)) <= n * Pow10(e0 - e)

\* No percentage of a returned dict is negative.
NonNegative(d) == \A i \in 1..Len(d) : d[i][2].m >= 0

Qualifying == {i \in 1..Len(qt_bindings) : installed[qt_bindings[i]] = "ok"}

\* C10: once find_qt_plugin_path has returned, its result is the plugins
\* directory of the first binding, in the order PySide6, PyQt6, PySide2,
\* PyQt5, that can be imported and has a plugins directory, whatever stands
\* before it; it is None only when no binding qualifies, and then the script
\* exits with status 1 and sets no plugin path.
C10_FirstQualifyingBinding ==
    /\ qt_bindings = <<"PySide6", "PyQt6", "PySide2", "PyQt5">>
    /\ startup_pc \notin {"idle", "search"} =>
         IF Qualifying = {}
         THEN /\ qt_plugin_path = None
              /\ startup_pc \in {"found_or_not", "exited"}
              /\ startup_pc = "exited" => exit_status = <<1>>
              /\ env_plugin_path = None
         ELSE LET first == CHOOSE i \in Qualifying : \A j \in Qualifying : i <= j
              IN  qt_plugin_path = PluginDir(qt_bindings[first])

\* C10's case: the first binding imports but has no plugins directory, the
\* second is missing, and the search has gone on to return the third's.
C10_Witness ==
    /\ installed["PySide6"] = "no_plugins"
    /\ installed["PyQt6"] = "missing"
    /\ installed["PySide2"] = "ok"
    /\ startup_pc = "found_or_not"
    /\ qt_plugin_path = "PySide2/plugins"

\* C11: in every run that reaches the creation of the QApplication,
\* QT_PLUGIN_PATH holds the plugins directory of PyQt6, the binding the
\* application imports and runs on, whatever bindings are installed.
C11_PluginPathOfImportedBinding ==
    startup_pc \in {"main", "running"} =>
        env_plugin_path = PluginDir("PyQt6")

\* run_simulation is never entered while a call of it is in progress.
C12_NeverReentered == Len(run_stack) <= 1

\* While a call of run_simulation is in progress, the last handler that ran
\* is that call: no load, phase selection or edit came in between.
C12_NothingInterleaved ==
    run_stack # <<>> => last_event = "run_simulation: processEvents"

\* The Calculate button is disabled whenever a simulation is in progress.
C12_CalculateDisabledMeanwhile ==
    run_stack # <<>> => ~calc_button.enabled

\* C12: the handlers of the Scheil Calculator run one at a time to
\* completion: from the entry of run_simulation to its finally block no
\* other handler runs, run_simulation is not entered again, no database load
\* or phase selection comes in between, and the Calculate button is disabled.
C12_HandlersRunToCompletion ==
    /\ C12_NeverReentered
    /\ C12_NothingInterleaved
    /\ C12_CalculateDisabledMeanwhile

\* C13: every call of simulate_scheil_solidification is made with a loaded
\* database, and, the fixed names 'VA' and 'LIQUID' that run_simulation adds
\* aside, the components passed are elements of that database and the phases
\* passed are phases of it.
C13_SimulateOnLoadedDatabase ==
    simulate_call.made =>
        /\ simulate_call.dbf # None
        /\ Range(simulate_call.component_list) \ {El_VA}
              \subseteq DbElements(simulate_call.dbf)
        /\ Range(simulate_call.phases) \ {Ph_Liquid, El_VA}
              \subseteq DOMAIN DbPhases(simulate_call.dbf)

\* C14: after open_file_dialog was given a file whose load failed, the
\* database label reads 'Failed to load DB.', and the label names a current
\* database only when db is not None.
C14_FailedLoadShownOnLabel ==
    /\ last_event = "open_file_dialog: Database raised" =>
          db_label = Label("Failed to load DB.", "")
    /\ db_label.text = "Current DB: " => db # None

\* Between operations: db is None exactly when current_file_path is None, and
\* a list that is not empty shows the elements or the phases of db.
C15_BetweenOperations ==
    /\ (db = None) <=> (current_file_path = None)
    /\ (element_list_widget # <<>> \/ phase_list_widget # <<>>) =>
          /\ db # None
          /\ Range(element_list_widget) = DbElements(db) \ {El_Null}
          /\ Range(phase_list_widget) = DOMAIN DbPhases(db)

\* A click on an item of a list changes neither db nor current_file_path.
C15_ItemClick ==
    last_event' \in {"display_phase_details", "display_element_interactions",
                     "display_element_interactions: open raised"} =>
        /\ db' = db
        /\ current_file_path' = current_file_path

\* C15: in the Database Browser, after every completed operation db is None
\* exactly when current_file_path is None, the element and phase lists are
\* non-empty only when db is not None and then list the elements and phases
\* of that db, and item clicks change neither db nor current_file_path.
C15_DbAndPathAgree == []C15_BetweenOperations /\ [][C15_ItemClick]_vars

\* C15's case: abc.tdb is loaded, both lists show its four elements and four
\* phases, and an element of the list has been clicked.
C15_Witness ==
    /\ last_event = "display_element_interactions"
    /\ db = Path_abc
    /\ current_file_path = Path_abc
    /\ Len(element_list_widget) = 4
    /\ Len(phase_list_widget) = 4
    /\ details_text_edit # EmptyDetails

\* C16: whenever no handler of the Scheil Calculator is in progress, the
\* Calculate button and the Select Phases button are enabled exactly when a
\* database is loaded, after any sequence of loads, phase selections and
\* simulations.
C16_ButtonsFollowDatabase ==
    run_stack = <<>> =>
        /\ calc_button.enabled <=> (dbf # None)
        /\ select_phases_button <=> (dbf # None)

\* C16's case: a simulation has ended with an error after the database it
\* had started with was replaced by a load of a path that does not exist;
\* no handler is in progress and no database is loaded.
C16_Witness ==
    /\ run_stack = <<>>
    /\ last_event = "run_simulation: error reported"
    /\ simulate_call.made
    /\ dbf = None
    /\ current_db_label = "None loaded"
    /\ ~calc_button.enabled
    /\ ~select_phases_button

\* The dict of the returned pair that is in the unit the user entered.
C17_Entered == IF unit_combo = AtomPercent THEN comp_result[1].items
               ELSE comp_result[2].items

\* Every percentage of the dict lies between 0 and 100.
C17_InRange(d) ==
    \A i \in 1..Len(d) :
        /\ ~DFLess(d[i][2], DFZero)
        /\ ~DFLess(DFInt(100), d[i][2])

\* The percentages of the dict sum to 100, up to the rounding of the
\* arithmetic (within 8 units in the last place of 100.0).
C17_SumsTo100(d) == WithinUnits(DFSum(OrderedValues(d)), DFInt(100), 8)

\* C17: whenever get_composition_from_ui returns two dicts, they have the
\* same elements, every percentage lies between 0 and 100, each dict sums to
\* 100 (up to rounding), and in the unit entered the base element's share is
\* 100 minus the sum of the solutes' concentrations; for every numeric
\* content of the concentration entries and every choice of solutes.
C17_CompositionWellFormed ==
    (/\ comp_pc \in {"converted", "converted2"}
     /\ comp_result[1].kind = "dict"
     /\ comp_result[2].kind = "dict") =>
        /\ OrderedKeys(comp_result[1].items) = OrderedKeys(comp_result[2].items)
        /\ C17_InRange(comp_result[1].items)
        /\ C17_InRange(comp_result[2].items)
        /\ C17_SumsTo100(comp_result[1].items)
        /\ C17_SumsTo100(comp_result[2].items)
        /\ base_element_combo \in OrderedKeys(C17_Entered)
        /\ WithinUnits(OrderedGet(C17_Entered, base_element_combo),
                       DFSub(DFInt(100),
                             DFSum(OrderedValues(
                                 OrderedWithout(C17_Entered, base_element_combo)))),
                       8)

====
